---- MODULE Spec2Model ----
(***************************************************************************)
(* AEnvironment: the instance controller (pod CRUD, watch-fed pod cache,    *)
(* leader election), the gateway's schedule client and its reclamation      *)
(* loop, and the gateway's create path.                                     *)
(*                                                                          *)
(* Time is counted in whole seconds.  A TTL label is a string, modelled as  *)
(* a sequence of one-character strings, and is parsed the way               *)
(* time.ParseDuration parses it.                                            *)
(***************************************************************************)
EXTENDS Integers, Sequences, FiniteSets, TLC

VARIABLES
    now,            \* wall clock, seconds
    cluster,        \* the pods the cluster API holds: PodIds -> pod
    cache,          \* the informer's indexer (AEnvPodCache.cache): PodIds -> pod
    nextPod,        \* number of pod names generated so far
    cpc,            \* per cleaner: position of ScheduleClient.Cleanup
    envInstances,   \* per cleaner: the list FilterPods returned to the current pass
    cIdx,           \* per cleaner: number of instances the loop has visited
    deletedCount,   \* per cleaner: Cleanup's deletedCount
    cResult,        \* per cleaner: what the last finished Cleanup returned
    getResp,        \* the last answer of GET /pods/{id}
    lease,          \* the leader-election lease: its holder and the time since its renewal
    rpc,            \* per controller replica: position of its process
    elected,        \* per replica: mgr.Elected() is closed
    isLeader,       \* per replica: the atomic flag of AddReadiness
    hasSynced,      \* per replica: the pod informer's HasSynced
    httpStarts,     \* per replica: times the process has bound the /pods server
    readyzResp,     \* the last answer of GET /readyz
    crudResp,       \* the last request the /pods server answered
    index,          \* Tenant Instance Index: token -> instance ids
    owner,          \* the backend's live instances: instance id -> creating token
    nextInst,       \* number of instances the backend has created
    rq,             \* per gateway request: its position and result
    scheduleType,   \* --schedule-type: the Instance Backend the gateway uses
    redisClient,    \* a Tenant Instance Index is configured (--redis-addr)
    attempted,      \* per cleaner: DeletePod calls of the current pass, per instance
    mpc,            \* per cleaner: position of AEnvCleanManager.Start and its goroutine
    tickPending,    \* per cleaner: a tick waits in ticker.C
    cancelled,      \* per cleaner: cm.ctx is cancelled
    delResp,        \* the last answer of DELETE /pods/{id}
    files,          \* controller host: the pod template files that can be read
    postResp,       \* the last answer of POST /pods, with the pod it submitted
    gwResp,         \* the last answer of the gateway's create, warmup, get and delete
    tcache,         \* gateway: the token validation cache, least recently used entry first
    useLog,         \* the calls of Validate in their order: the token, the time, the answer
    valResp         \* the last answer of Validate

podVars == <<now, cluster, cache, nextPod>>
cleanVars == <<cpc, envInstances, cIdx, deletedCount, cResult, attempted>>
leaderVars == <<lease, rpc, elected, isLeader, hasSynced, httpStarts, readyzResp, crudResp>>
gwCfg == <<scheduleType, redisClient>>
gwVars == <<index, owner, nextInst, rq, gwCfg>>
mgrVars == <<mpc, tickPending, cancelled>>
tokenVars == <<tcache, useLog, valResp>>
createVars == <<files, postResp, gwResp, tokenVars>>
otherVars == <<leaderVars, gwVars, mgrVars, delResp, createVars>>
vars == <<now, cluster, cache, nextPod, cpc, envInstances, cIdx, deletedCount,
          cResult, attempted, getResp, leaderVars, gwVars, mgrVars, delResp, createVars>>

----------------------------------------------------------------------------
(* Bounds *)
MaxPods == 2
tokenCacheMaxEntries == 2
tokenCacheTTLMinutes == 1
MaxTime == 2
NumCleaners == 2
MaxLivePods == 1
NumReplicas == 2
Tick == 5
MaxTransitions == 2
NumReqs == 3
NumTenants == 2
MaxGwReqs == 2
MaxIdxReqs == 1

PodIds == 1..MaxPods
Cleaners == 1..NumCleaners
Replicas == 1..NumReplicas
Reqs == 1..NumReqs
Tokens == 1..NumTenants
InstIds == 1..NumReqs

----------------------------------------------------------------------------
(* time.ParseDuration, on whole seconds: [-+]?([0-9]+[a-z]+)+ or "0" *)

Digits == {"0", "1", "2", "3", "4", "5", "6", "7", "8", "9"}

DigitVal(c) ==
    CASE c = "0" -> 0 [] c = "1" -> 1 [] c = "2" -> 2 [] c = "3" -> 3
      [] c = "4" -> 4 [] c = "5" -> 5 [] c = "6" -> 6 [] c = "7" -> 7
      [] c = "8" -> 8 [] c = "9" -> 9

\* unitMap of the time package, the units of a second and more
unitMap == [u \in {<<"s">>, <<"m">>, <<"h">>} |->
              IF u = <<"s">> THEN 1 ELSE IF u = <<"m">> THEN 60 ELSE 3600]

ParseErr == [ok |-> FALSE, d |-> 0]

RECURSIVE leadingInt(_, _)
leadingInt(s, acc) ==
    IF s # <<>> /\ Head(s) \in Digits
    THEN leadingInt(Tail(s), acc * 10 + DigitVal(Head(s)))
    ELSE [x |-> acc, rem |-> s]

RECURSIVE unitLen(_)
unitLen(s) ==
    IF s = <<>> \/ Head(s) \in Digits \/ Head(s) = "."
    THEN 0
    ELSE 1 + unitLen(Tail(s))

RECURSIVE parseGroups(_, _)
parseGroups(s, d) ==
    IF s = <<>> THEN [ok |-> TRUE, d |-> d]
    ELSE IF Head(s) \notin Digits THEN ParseErr      \* invalid duration
    ELSE LET li == leadingInt(s, 0)
             n == unitLen(li.rem)
             u == SubSeq(li.rem, 1, n)
         IN  IF n = 0 THEN ParseErr                  \* missing unit
             ELSE IF u \notin DOMAIN unitMap THEN ParseErr   \* unknown unit
             ELSE parseGroups(SubSeq(li.rem, n + 1, Len(li.rem)), d + li.x * unitMap[u])

ParseDuration(s) ==
    LET signed == s # <<>> /\ Head(s) \in {"-", "+"}
        neg == s # <<>> /\ Head(s) = "-"
        body == IF signed THEN Tail(s) ELSE s
    IN  IF body = <<"0">> THEN [ok |-> TRUE, d |-> 0]
        ELSE IF body = <<>> THEN ParseErr
        ELSE LET r == parseGroups(body, 0)
             IN  IF r.ok /\ neg THEN [ok |-> TRUE, d |-> 0 - r.d] ELSE r

----------------------------------------------------------------------------
(* Pods *)

\* the aenv-ttl label values requests carry: none, "1s", and "2" (no unit)
TTLLabels == {<<>>, <<"1", "s">>, <<"2">>}

\* pod.Status.Phase as the handlers pass it on. No handler tells Pending from
\* Running: "Running" stands for both. "Failed" is the platform's terminal
\* phase and "Terminated" the status string Cleanup tests for.
Phases == {"Running", "Failed", "Terminated"}

NoPod == [exists |-> FALSE, ttl |-> <<>>, createdAt |-> 0, phase |-> ""]

Pod(ttl, t, ph) == [exists |-> TRUE, ttl |-> ttl, createdAt |-> t, phase |-> ph]

----------------------------------------------------------------------------
(* Instance Cache *)

\* AEnvPodCache.GetPod: the indexer's GetByKey
GetPod(c, id) ==
    IF c[id].exists THEN [err |-> FALSE, pod |-> c[id]]
    ELSE [err |-> TRUE, pod |-> NoPod]

\* AEnvPodCache.ListPodsByNamespace
ListPodsByNamespace(c) == {id \in PodIds : c[id].exists}

\* a mutant of ListExpiredPods: a label that does not parse ends the scan with
\* the error, and nothing is listed
ListExpiredPodsAbort(c, t) ==
    IF \E id \in PodIds : c[id].exists /\ c[id].ttl # <<>> /\ ~ParseDuration(c[id].ttl).ok
    THEN {}
    ELSE {id \in PodIds : c[id].exists /\ c[id].ttl # <<>>}

\* a mutant of ListExpiredPods: the test of the parse error is inverted, so a
\* pod whose label parses is skipped
ListExpiredPodsSkipParsed(c, t) ==
    {id \in PodIds :
        /\ c[id].exists
        /\ c[id].ttl # <<>>
        /\ ~ParseDuration(c[id].ttl).ok}

\* AEnvPodCache.ListExpiredPods at time t: a pod without a TTL label or with a
\* label that does not parse is skipped; the comparison with the age of the
\* pod only logs, and the pod is appended whatever its outcome
ListExpiredPods(c, t) ==
    {id \in PodIds :
        /\ c[id].exists
        /\ c[id].ttl # <<>>
        /\ ParseDuration(c[id].ttl).ok}

\* the orders a list of the indexer's items can come in
Orders(S) ==
    {q \in [1..Cardinality(S) -> S] : \A i, j \in 1..Cardinality(S) : i # j => q[i] # q[j]}

\* AEnvPodHandler.listPod: the id and status of each pod of the list response,
\* in the order podList gives
listPod(c, podList) ==
    [i \in 1..Len(podList) |-> [id |-> podList[i], status |-> c[podList[i]].phase]]

\* an error of the cluster API that is no *errors.StatusError (a transport error)
NonStatus == 0 - 1

\* a mutant of httpStatusFromK8s: a conflict falls to the default
httpStatusFromK8sNoConflict(code) ==
    IF code \in {200, 201, 202} THEN 200
    ELSE IF code \in {400, 401, 403, 404} THEN code
    ELSE 500

\* httpStatusFromK8s
httpStatusFromK8s(code) ==
    IF code \in {200, 201, 202} THEN 200
    ELSE IF code \in {400, 401, 403, 404, 409} THEN code
    ELSE 500

\* handleK8sAPiError: the status the handler answers an error of the cluster
\* API with; the body is the plain text of http.Error
handleK8sAPiError(apiCode) ==
    IF apiCode = NonStatus THEN 500 ELSE httpStatusFromK8s(apiCode)

\* a mutant of getPod: a cache miss is answered 404 without the cluster read
getPodCacheOnly(c, cl, id, apiCode) ==
    LET hit == GetPod(c, id)
    IN  IF ~hit.err THEN [code |-> 200, pod |-> hit.pod]
        ELSE [code |-> httpStatusFromK8s(404), pod |-> NoPod]

\* AEnvPodHandler.getPod: cache first, the cluster API on a miss. apiCode is
\* the status the cluster API answers a read with when it fails for another
\* reason than the pod's absence (0: it does not fail)
getPod(c, cl, id, apiCode) ==
    LET hit == GetPod(c, id)
    IN  IF ~hit.err THEN [code |-> 200, pod |-> hit.pod]
        ELSE IF apiCode # 0 THEN [code |-> handleK8sAPiError(apiCode), pod |-> NoPod]
        ELSE IF ~cl[id].exists THEN [code |-> handleK8sAPiError(404), pod |-> NoPod]
        ELSE [code |-> 200, pod |-> cl[id]]

\* a mutant of DeletePod: the delete of an absent pod is answered as a success
DeletePodIdempotent(cl, id, apiCode) ==
    IF apiCode # 0 THEN [err |-> TRUE, code |-> httpStatusFromK8s(apiCode), deleted |-> FALSE, cluster |-> cl]
    ELSE [err |-> FALSE, code |-> 200, deleted |-> TRUE, cluster |-> [cl EXCEPT ![id] = NoPod]]

\* AEnvPodHandler.deletePod as the schedule client sees it (ScheduleClient.DeletePod):
\* a direct delete against the cluster; data is true whenever the call succeeds
DeletePod(cl, id, apiCode) ==
    IF apiCode # 0 THEN [err |-> TRUE, code |-> handleK8sAPiError(apiCode), deleted |-> FALSE, cluster |-> cl]
    ELSE IF ~cl[id].exists THEN [err |-> TRUE, code |-> handleK8sAPiError(404), deleted |-> FALSE, cluster |-> cl]
    ELSE [err |-> FALSE, code |-> 200, deleted |-> TRUE, cluster |-> [cl EXCEPT ![id] = NoPod]]

----------------------------------------------------------------------------
(* Controller and cluster actions *)

\* AEnvPodHandler.createPod: a new name, the TTL label, the pod submitted
CreatePod(ttl) ==
    /\ nextPod < MaxPods
    /\ nextPod' = nextPod + 1
    /\ cluster' = [cluster EXCEPT ![nextPod + 1] = Pod(ttl, now, "Running")]
    /\ UNCHANGED <<now, cache, getResp>>
    /\ UNCHANGED cleanVars
    /\ UNCHANGED otherVars

\* a mutant of WatchDeliver: the delete event of a pod is dropped
WatchDeliverNoDelete(id) ==
    /\ cache[id] # cluster[id]
    /\ cluster[id].exists
    /\ cache' = [cache EXCEPT ![id] = cluster[id]]
    /\ UNCHANGED <<now, cluster, nextPod, getResp>>
    /\ UNCHANGED cleanVars
    /\ UNCHANGED otherVars

\* the watch delivers the add, update or delete event of pod id
WatchDeliver(id) ==
    /\ cache[id] # cluster[id]
    /\ cache' = [cache EXCEPT ![id] = cluster[id]]
    /\ UNCHANGED <<now, cluster, nextPod, getResp>>
    /\ UNCHANGED cleanVars
    /\ UNCHANGED otherVars

\* the platform moves a pod to its next phase
PhaseChange(id, ph) ==
    /\ cluster[id].exists
    /\ cluster[id].phase = "Running"
    /\ ph \in {"Failed", "Terminated"}
    /\ cluster' = [cluster EXCEPT ![id].phase = ph]
    /\ UNCHANGED <<now, cache, nextPod, getResp>>
    /\ UNCHANGED cleanVars
    /\ UNCHANGED otherVars

AdvanceTime ==
    /\ now < MaxTime
    /\ now' = now + 1
    /\ UNCHANGED <<cluster, cache, nextPod, getResp>>
    /\ UNCHANGED cleanVars
    /\ UNCHANGED otherVars

\* DELETE /pods/{id} on behalf of a gateway user
UserDelete(id) ==
    /\ id <= nextPod
    /\ cluster[id].exists
    /\ cluster' = DeletePod(cluster, id, 0).cluster
    /\ UNCHANGED <<now, cache, nextPod, getResp>>
    /\ UNCHANGED cleanVars
    /\ UNCHANGED otherVars

\* DELETE /pods/{id}: the answer of deletePod and what ScheduleClient.DeletePod
\* makes of it, recorded with whether the cluster held the pod
DeletePodReq(id, apiCode) ==
    /\ cluster' = DeletePod(cluster, id, apiCode).cluster
    /\ delResp' = [id |-> id,
                   code |-> DeletePod(cluster, id, apiCode).code,
                   err |-> DeletePod(cluster, id, apiCode).err,
                   existed |-> cluster[id].exists,
                   apiCode |-> apiCode]
    /\ UNCHANGED <<now, cache, nextPod, getResp>>
    /\ UNCHANGED cleanVars
    /\ UNCHANGED <<leaderVars, gwVars, mgrVars, createVars>>

\* GET /pods/{id}: the answer of getPod, recorded with what the cache and the
\* cluster held when it was given
GetPodReq(id, apiCode) ==
    /\ getResp' = [id |-> id,
                   code |-> getPod(cache, cluster, id, apiCode).code,
                   pod |-> getPod(cache, cluster, id, apiCode).pod,
                   inCache |-> cache[id].exists,
                   inCluster |-> cluster[id].exists,
                   apiCode |-> apiCode]
    /\ UNCHANGED podVars
    /\ UNCHANGED cleanVars
    /\ UNCHANGED otherVars

----------------------------------------------------------------------------
(* Reclamation: ScheduleClient.Cleanup, one pass per tick of AEnvCleanManager *)

\* the ticker fires (or Start runs its first pass): Cleanup is entered
StartPass(c) ==
    /\ cpc[c] = "idle"
    /\ cpc' = [cpc EXCEPT ![c] = "list"]
    /\ cResult' = [cResult EXCEPT ![c] = "none"]
    /\ UNCHANGED <<envInstances, cIdx, deletedCount, attempted, getResp>>
    /\ UNCHANGED podVars
    /\ UNCHANGED otherVars

\* FilterPods succeeds: GET /pods?filter=expired; an empty list ends the pass
FilterPodsOk(c) ==
    /\ cpc[c] = "list"
    /\ \E podList \in Orders(ListExpiredPods(cache, now)) :
          /\ envInstances' = [envInstances EXCEPT ![c] = listPod(cache, podList)]
          /\ IF podList = <<>>
             THEN /\ cpc' = [cpc EXCEPT ![c] = "idle"]
                  /\ cResult' = [cResult EXCEPT ![c] = "nil"]
             ELSE /\ cpc' = [cpc EXCEPT ![c] = "loop"]
                  /\ UNCHANGED cResult
    /\ UNCHANGED <<cIdx, deletedCount, attempted, getResp>>
    /\ UNCHANGED podVars
    /\ UNCHANGED otherVars

\* FilterPods fails (transport, status or envelope): Cleanup returns the error
FilterPodsFail(c) ==
    /\ cpc[c] = "list"
    /\ cpc' = [cpc EXCEPT ![c] = "idle"]
    /\ cResult' = [cResult EXCEPT ![c] = "err"]
    /\ UNCHANGED <<envInstances, cIdx, deletedCount, attempted, getResp>>
    /\ UNCHANGED podVars
    /\ UNCHANGED otherVars

\* the instance the loop visits next
Instance(c) == envInstances[c][cIdx[c] + 1]

\* a mutant of CleanupIter: a delete that fails is tried again at once
CleanupIterRetry(c, apiCode) ==
    /\ cpc[c] = "loop"
    /\ cIdx[c] < Len(envInstances[c])
    /\ IF Instance(c).status = "Terminated"
       THEN /\ cIdx' = [cIdx EXCEPT ![c] = @ + 1]
            /\ UNCHANGED <<cluster, deletedCount, attempted>>
       ELSE LET r == DeletePod(cluster, Instance(c).id, apiCode)
            IN  /\ cluster' = r.cluster
                /\ attempted' = [attempted EXCEPT ![c][Instance(c).id] = @ + 1]
                /\ IF ~r.err /\ r.deleted
                   THEN /\ deletedCount' = [deletedCount EXCEPT ![c] = @ + 1]
                        /\ cIdx' = [cIdx EXCEPT ![c] = @ + 1]
                   ELSE UNCHANGED <<deletedCount, cIdx>>
    /\ UNCHANGED <<now, cache, nextPod, cpc, envInstances, cResult, getResp>>
    /\ UNCHANGED otherVars

\* a mutant of CleanupIter: a delete that fails ends the pass with its error
CleanupIterAbort(c, apiCode) ==
    /\ cpc[c] = "loop"
    /\ cIdx[c] < Len(envInstances[c])
    /\ cIdx' = [cIdx EXCEPT ![c] = @ + 1]
    /\ IF Instance(c).status = "Terminated"
       THEN UNCHANGED <<cluster, deletedCount, attempted, cpc, cResult>>
       ELSE LET r == DeletePod(cluster, Instance(c).id, apiCode)
            IN  /\ cluster' = r.cluster
                /\ attempted' = [attempted EXCEPT ![c][Instance(c).id] = @ + 1]
                /\ IF ~r.err /\ r.deleted
                   THEN /\ deletedCount' = [deletedCount EXCEPT ![c] = @ + 1]
                        /\ UNCHANGED <<cpc, cResult>>
                   ELSE /\ cpc' = [cpc EXCEPT ![c] = "idle"]
                        /\ cResult' = [cResult EXCEPT ![c] = "err"]
                        /\ UNCHANGED deletedCount
    /\ UNCHANGED <<now, cache, nextPod, envInstances, getResp>>
    /\ UNCHANGED otherVars

\* one iteration of Cleanup's loop; apiCode is the cluster API's failure for
\* the delete (0: none)
CleanupIter(c, apiCode) ==
    /\ cpc[c] = "loop"
    /\ cIdx[c] < Len(envInstances[c])
    /\ cIdx' = [cIdx EXCEPT ![c] = @ + 1]
    /\ IF Instance(c).status = "Terminated"
       THEN UNCHANGED <<cluster, deletedCount, attempted>>
       ELSE LET r == DeletePod(cluster, Instance(c).id, apiCode)
            IN  /\ cluster' = r.cluster
                /\ attempted' = [attempted EXCEPT ![c][Instance(c).id] = @ + 1]
                /\ IF ~r.err /\ r.deleted
                   THEN deletedCount' = [deletedCount EXCEPT ![c] = @ + 1]
                   ELSE UNCHANGED deletedCount
    /\ UNCHANGED <<now, cache, nextPod, cpc, envInstances, cResult, getResp>>
    /\ UNCHANGED otherVars

\* the skip of a Terminated instance
CleanupSkip(c) ==
    /\ cpc[c] = "loop" /\ cIdx[c] < Len(envInstances[c])
    /\ Instance(c).status = "Terminated"
    /\ CleanupIter(c, 0)

\* a delete of pod id that the controller answers (success, or 404 for an absent pod)
CleanupDelete(c, id) ==
    /\ cpc[c] = "loop" /\ cIdx[c] < Len(envInstances[c])
    /\ Instance(c).status # "Terminated" /\ Instance(c).id = id
    /\ CleanupIter(c, 0)

\* a delete of pod id that the cluster API fails
CleanupDeleteFail(c, id) ==
    /\ cpc[c] = "loop" /\ cIdx[c] < Len(envInstances[c])
    /\ Instance(c).status # "Terminated" /\ Instance(c).id = id
    /\ CleanupIter(c, 500)

\* the loop is over: Cleanup logs the count and returns nil; its locals are gone
CleanupReturn(c) ==
    /\ cpc[c] = "loop"
    /\ cIdx[c] = Len(envInstances[c])
    /\ cpc' = [cpc EXCEPT ![c] = "idle"]
    /\ cResult' = [cResult EXCEPT ![c] = "nil"]
    /\ envInstances' = [envInstances EXCEPT ![c] = <<>>]
    /\ cIdx' = [cIdx EXCEPT ![c] = 0]
    /\ deletedCount' = [deletedCount EXCEPT ![c] = 0]
    /\ attempted' = [attempted EXCEPT ![c] = [id \in PodIds |-> 0]]
    /\ UNCHANGED getResp
    /\ UNCHANGED podVars
    /\ UNCHANGED otherVars

----------------------------------------------------------------------------
(* AEnvCleanManager: the first pass of Start, then the ticker goroutine *)

\* KubeCleaner.cleanup calls ScheduleClient.Cleanup
EnterCleanup(c) ==
    /\ cpc' = [cpc EXCEPT ![c] = "list"]
    /\ cResult' = [cResult EXCEPT ![c] = "none"]
    /\ UNCHANGED <<envInstances, cIdx, deletedCount, attempted>>

\* Start is called: cm.cleaner.cleanup() at once, in the caller's goroutine
Start(c) ==
    /\ mpc[c] = "new"
    /\ mpc' = [mpc EXCEPT ![c] = "first"]
    /\ EnterCleanup(c)
    /\ UNCHANGED <<tickPending, cancelled>>
    /\ UNCHANGED <<podVars, getResp, delResp, leaderVars, gwVars, createVars>>

\* a mutant of StartTicker: the first pass is started in a goroutine of its
\* own and Start goes on without its return
StartTickerAsync(c) ==
    /\ mpc[c] = "first"
    /\ mpc' = [mpc EXCEPT ![c] = "select"]
    /\ UNCHANGED <<tickPending, cancelled>>
    /\ UNCHANGED <<podVars, cleanVars, getResp, delResp, leaderVars, gwVars, createVars>>

\* the first pass has returned: time.NewTicker and the goroutine, which
\* waits in its select
StartTicker(c) ==
    /\ mpc[c] = "first"
    /\ cpc[c] = "idle"
    /\ mpc' = [mpc EXCEPT ![c] = "select"]
    /\ UNCHANGED <<tickPending, cancelled>>
    /\ UNCHANGED <<podVars, cleanVars, getResp, delResp, leaderVars, gwVars, createVars>>

\* the interval has passed: the ticker puts a tick in ticker.C, or drops it
\* when one is waiting there
TickerFires(c) ==
    /\ mpc[c] \in {"select", "pass"}
    /\ ~tickPending[c]
    /\ tickPending' = [tickPending EXCEPT ![c] = TRUE]
    /\ UNCHANGED <<mpc, cancelled>>
    /\ UNCHANGED <<podVars, cleanVars, getResp, delResp, leaderVars, gwVars, createVars>>

\* case <-ticker.C: cm.cleaner.cleanup()
TickerCase(c) ==
    /\ mpc[c] = "select"
    /\ tickPending[c]
    /\ tickPending' = [tickPending EXCEPT ![c] = FALSE]
    /\ mpc' = [mpc EXCEPT ![c] = "pass"]
    /\ EnterCleanup(c)
    /\ UNCHANGED cancelled
    /\ UNCHANGED <<podVars, getResp, delResp, leaderVars, gwVars, createVars>>

\* cleanup has returned: the goroutine is back in its select
PassDone(c) ==
    /\ mpc[c] = "pass"
    /\ cpc[c] = "idle"
    /\ mpc' = [mpc EXCEPT ![c] = "select"]
    /\ UNCHANGED <<tickPending, cancelled>>
    /\ UNCHANGED <<podVars, cleanVars, getResp, delResp, leaderVars, gwVars, createVars>>

\* a mutant of DoneCase: the goroutine looks at cm.ctx only when no tick waits
DoneCaseAfterTicks(c) ==
    /\ mpc[c] = "select"
    /\ cancelled[c]
    /\ ~tickPending[c]
    /\ mpc' = [mpc EXCEPT ![c] = "stopped"]
    /\ UNCHANGED <<tickPending, cancelled>>
    /\ UNCHANGED <<podVars, cleanVars, getResp, delResp, leaderVars, gwVars, createVars>>

\* case <-cm.ctx.Done(): the goroutine returns and its defer stops the ticker
DoneCase(c) ==
    /\ mpc[c] = "select"
    /\ cancelled[c]
    /\ mpc' = [mpc EXCEPT ![c] = "stopped"]
    /\ tickPending' = [tickPending EXCEPT ![c] = FALSE]
    /\ UNCHANGED cancelled
    /\ UNCHANGED <<podVars, cleanVars, getResp, delResp, leaderVars, gwVars, createVars>>

\* Stop: cm.cancel()
Stop(c) ==
    /\ ~cancelled[c]
    /\ cancelled' = [cancelled EXCEPT ![c] = TRUE]
    /\ UNCHANGED <<mpc, tickPending>>
    /\ UNCHANGED <<podVars, cleanVars, getResp, delResp, leaderVars, gwVars, createVars>>

----------------------------------------------------------------------------
(* Controller replicas: leader election, readiness, start of the /pods server *)

\* --leader-elect-lease-duration and --leader-elect-renew-deadline, seconds
LeaseDuration == 65
RenewDeadline == 60

\* the lease record: its holder, the time since its last renewal, and the
\* number of times it has passed from one holder to another
NoLease == [holder |-> 0, age |-> 0, transitions |-> 0]
NoReadyz == [r |-> 0, code |-> 0]
NoCrud == [r |-> 0, synced |-> FALSE]

Alive(r) == rpc[r] # "exited"

\* the manager of replica r holds the lease and is leading
Leading(r) == Alive(r) /\ elected[r] /\ lease.holder = r

Min(a, b) == IF a < b THEN a ELSE b

\* a mutant of ElectedFired: the goroutine does not wait for mgr.Elected()
ElectedNoWait(r) == TRUE

\* <-mgr.Elected() of AddReadiness returns
ElectedFired(r) == elected[r]

\* readyzHandler: 200 "ok" if the flag is set, 400 "not leader" otherwise
readyzHandler(r) == IF isLeader[r] THEN 200 ELSE 400

\* a mutant of WaitForCacheSync: NewAEnvPodCache returns without waiting
NoWaitForCacheSync(r) == TRUE

\* cache.WaitForCacheSync(stopCh, podInformer.HasSynced) of NewAEnvPodCache returns true
WaitForCacheSync(r) == hasSynced[r]

\* the process of replica r ends: its memory and its servers are gone
Exit(r) ==
    /\ rpc' = [rpc EXCEPT ![r] = "exited"]
    /\ elected' = [elected EXCEPT ![r] = FALSE]
    /\ isLeader' = [isLeader EXCEPT ![r] = FALSE]
    /\ hasSynced' = [hasSynced EXCEPT ![r] = FALSE]
    /\ httpStarts' = [httpStarts EXCEPT ![r] = 0]
    /\ readyzResp' = IF readyzResp.r = r THEN NoReadyz ELSE readyzResp
    /\ crudResp' = IF crudResp.r = r THEN NoCrud ELSE crudResp

\* the manager of a standby replica acquires the lease (it is free, or its
\* holder has not renewed it for LeaseDuration) and closes mgr.Elected()
Acquire(r) ==
    /\ Alive(r) /\ ~elected[r]
    /\ lease.holder = 0 \/ lease.age >= LeaseDuration
    /\ lease' = [holder |-> r, age |-> 0,
                 transitions |-> IF lease.holder \in {0, r} THEN lease.transitions
                                 ELSE Min(lease.transitions + 1, MaxTransitions)]
    /\ elected' = [elected EXCEPT ![r] = TRUE]
    /\ UNCHANGED <<rpc, isLeader, hasSynced, httpStarts, readyzResp, crudResp>>
    /\ UNCHANGED <<podVars, cleanVars, getResp, gwVars, mgrVars, delResp, createVars>>

\* the leader renews the lease within the renew deadline
Renew(r) ==
    /\ Leading(r)
    /\ 0 < lease.age /\ lease.age < RenewDeadline
    /\ lease' = [lease EXCEPT !.age = 0]
    /\ UNCHANGED <<rpc, elected, isLeader, hasSynced, httpStarts, readyzResp, crudResp>>
    /\ UNCHANGED <<podVars, cleanVars, getResp, gwVars, mgrVars, delResp, createVars>>

\* a mutant of LoseLease: the error of controllerManager.Start is ignored and
\* the process keeps running
LoseLeaseNoExit(r) ==
    /\ Leading(r)
    /\ lease.age >= RenewDeadline
    /\ elected' = [elected EXCEPT ![r] = FALSE]
    /\ UNCHANGED <<lease, rpc, isLeader, hasSynced, httpStarts, readyzResp, crudResp>>
    /\ UNCHANGED <<podVars, cleanVars, getResp, gwVars, mgrVars, delResp, createVars>>

\* the leader has not renewed within the renew deadline: controllerManager.Start
\* returns "leader election lost" and SetUpController calls os.Exit(1)
LoseLease(r) ==
    /\ Leading(r)
    /\ lease.age >= RenewDeadline
    /\ Exit(r)
    /\ UNCHANGED lease
    /\ UNCHANGED <<podVars, cleanVars, getResp, gwVars, mgrVars, delResp, createVars>>

\* the process is stopped (a signal, a crash, klog.Fatalf); the lease is not released
Shutdown(r) ==
    /\ Alive(r)
    /\ Exit(r)
    /\ UNCHANGED lease
    /\ UNCHANGED <<podVars, cleanVars, getResp, gwVars, mgrVars, delResp, createVars>>

\* the platform starts the replica again: main, SetUpController, AddReadiness
Restart(r) ==
    /\ rpc[r] = "exited"
    /\ rpc' = [rpc EXCEPT ![r] = "wait"]
    /\ UNCHANGED <<lease, elected, isLeader, hasSynced, httpStarts, readyzResp, crudResp>>
    /\ UNCHANGED <<podVars, cleanVars, getResp, gwVars, mgrVars, delResp, createVars>>

\* time passes; a leading manager gives up at the renew deadline at the latest
AdvanceLease ==
    /\ lease.holder # 0
    /\ lease.age < (IF Leading(lease.holder) THEN RenewDeadline ELSE LeaseDuration)
    /\ lease' = [lease EXCEPT !.age =
                    Min(@ + Tick, IF Leading(lease.holder) THEN RenewDeadline ELSE LeaseDuration)]
    /\ UNCHANGED <<rpc, elected, isLeader, hasSynced, httpStarts, readyzResp, crudResp>>
    /\ UNCHANGED <<podVars, cleanVars, getResp, gwVars, mgrVars, delResp, createVars>>

\* the goroutine of AddReadiness: isLeader.Store(true) once mgr.Elected() is closed
StoreLeader(r) ==
    /\ rpc[r] = "wait"
    /\ ElectedFired(r)
    /\ isLeader' = [isLeader EXCEPT ![r] = TRUE]
    /\ rpc' = [rpc EXCEPT ![r] = "leaderSet"]
    /\ UNCHANGED <<lease, elected, hasSynced, httpStarts, readyzResp, crudResp>>
    /\ UNCHANGED <<podVars, cleanVars, getResp, gwVars, mgrVars, delResp, createVars>>

\* StartHttpServer: NewAEnvPodHandler, NewAEnvPodCache starts the informer and waits
StartHttpServer(r) ==
    /\ rpc[r] = "leaderSet"
    /\ rpc' = [rpc EXCEPT ![r] = "syncing"]
    /\ UNCHANGED <<lease, elected, isLeader, hasSynced, httpStarts, readyzResp, crudResp>>
    /\ UNCHANGED <<podVars, cleanVars, getResp, gwVars, mgrVars, delResp, createVars>>

\* podInformer.Run: the initial list has filled the indexer
InformerSync(r) ==
    /\ rpc[r] = "syncing"
    /\ ~hasSynced[r]
    /\ hasSynced' = [hasSynced EXCEPT ![r] = TRUE]
    /\ UNCHANGED <<lease, rpc, elected, isLeader, httpStarts, readyzResp, crudResp>>
    /\ UNCHANGED <<podVars, cleanVars, getResp, gwVars, mgrVars, delResp, createVars>>

\* NewAEnvPodCache returns and StartHttpServer binds /pods: ListenAndServe
ListenAndServe(r) ==
    /\ rpc[r] = "syncing"
    /\ WaitForCacheSync(r)
    /\ rpc' = [rpc EXCEPT ![r] = "serving"]
    /\ httpStarts' = [httpStarts EXCEPT ![r] = @ + 1]
    /\ UNCHANGED <<lease, elected, isLeader, hasSynced, readyzResp, crudResp>>
    /\ UNCHANGED <<podVars, cleanVars, getResp, gwVars, mgrVars, delResp, createVars>>

\* GET /readyz on replica r
Readyz(r) ==
    /\ Alive(r)
    /\ readyzResp' = [r |-> r, code |-> readyzHandler(r)]
    /\ UNCHANGED <<lease, rpc, elected, isLeader, hasSynced, httpStarts, crudResp>>
    /\ UNCHANGED <<podVars, cleanVars, getResp, gwVars, mgrVars, delResp, createVars>>

\* a request to /pods that replica r answers from its cache
CrudRequest(r) ==
    /\ rpc[r] = "serving"
    /\ crudResp' = [r |-> r, synced |-> hasSynced[r]]
    /\ UNCHANGED <<lease, rpc, elected, isLeader, hasSynced, httpStarts, readyzResp>>
    /\ UNCHANGED <<podVars, cleanVars, getResp, gwVars, mgrVars, delResp, createVars>>

InitLeaderVars ==
    /\ lease = NoLease
    /\ rpc = [r \in Replicas |-> "wait"]
    /\ elected = [r \in Replicas |-> FALSE]
    /\ isLeader = [r \in Replicas |-> FALSE]
    /\ hasSynced = [r \in Replicas |-> FALSE]
    /\ httpStarts = [r \in Replicas |-> 0]
    /\ readyzResp = NoReadyz
    /\ crudResp = NoCrud

----------------------------------------------------------------------------
(* Gateway: POST /env-instance *)

\* the configured per-tenant cap of InstanceLimitMiddleware
InstanceCap == 1

\* the token of a request that carries none (token validation is off)
Anon == NumTenants + 1

GwOps == {"create", "delete", "list"}

\* a request: its route, the token of its context, the instance it names or
\* created, its response code, the outcome of its index operation, and for a
\* list the source and the content of the answer
NewReq == [pc |-> "new", op |-> "", token |-> 0, code |-> 0, inst |-> 0,
           idx |-> "none", src |-> "none", api |-> TRUE, data |-> {}]

\* the live instances token t has created
LiveCount(t) == Cardinality({i \in InstIds : owner[i] = t})

\* the instances the Instance Backend holds
LiveInstances == {i \in InstIds : owner[i] # 0}

\* a request arrives on the route of op, with token t (Anon: none), naming instance id
Arrive(k, op, t, id) ==
    /\ rq[k].pc = "new"
    /\ rq' = [rq EXCEPT ![k] = [@ EXCEPT !.pc = "auth", !.op = op, !.token = t, !.inst = id]]
    /\ UNCHANGED <<index, owner, nextInst>>
    /\ UNCHANGED <<podVars, cleanVars, getResp, leaderVars, mgrVars, delResp, gwCfg, createVars>>

\* the handler chain of each route, after AuthTokenMiddleware
FirstStage(op) ==
    CASE op = "create" -> "limit"
      [] op = "delete" -> "delete"
      [] op = "list" -> "list"

\* the response has been written and the handler chain has returned
Respond(k) ==
    /\ rq[k].pc = "done"
    /\ rq' = [rq EXCEPT ![k] = NewReq]
    /\ UNCHANGED <<index, owner, nextInst>>
    /\ UNCHANGED <<podVars, cleanVars, getResp, leaderVars, mgrVars, delResp, gwCfg, createVars>>

\* AuthTokenMiddleware: a token that does not validate ends the request with 401
AuthTokenMiddleware(k, valid) ==
    /\ rq[k].pc = "auth"
    /\ IF valid \/ rq[k].token = Anon
       THEN rq' = [rq EXCEPT ![k] = [@ EXCEPT !.pc = FirstStage(rq[k].op)]]
       ELSE rq' = [rq EXCEPT ![k] = [@ EXCEPT !.pc = "done", !.code = 401]]
    /\ UNCHANGED <<index, owner, nextInst>>
    /\ UNCHANGED <<podVars, cleanVars, getResp, leaderVars, mgrVars, delResp, gwCfg, createVars>>

\* InstanceLimitMiddleware: the caller's count, from the Tenant Instance Index
\* or, when the index is unavailable, from the backend, against the cap; at
\* or above it the request is rejected. The next handler of the chain is RateLimit
InstanceLimitMiddleware(k, indexUp) ==
    /\ rq[k].pc = "limit"
    /\ IF rq[k].token = Anon
       THEN rq' = [rq EXCEPT ![k] = [@ EXCEPT !.pc = "rate"]]
       ELSE IF (IF indexUp /\ redisClient THEN Cardinality(index[rq[k].token])
                ELSE LiveCount(rq[k].token)) >= InstanceCap
       THEN rq' = [rq EXCEPT ![k] = [@ EXCEPT !.pc = "done", !.code = 429]]
       ELSE rq' = [rq EXCEPT ![k] = [@ EXCEPT !.pc = "rate"]]
    /\ UNCHANGED <<index, owner, nextInst>>
    /\ UNCHANGED <<podVars, cleanVars, getResp, leaderVars, mgrVars, delResp, gwCfg, createVars>>

\* RateLimit(qps): over the global rate the request is rejected. The next
\* handler of the chain is CreateEnvInstance
RateLimit(k, allowed) ==
    /\ rq[k].pc = "rate"
    /\ IF allowed
       THEN rq' = [rq EXCEPT ![k] = [@ EXCEPT !.pc = "create"]]
       ELSE rq' = [rq EXCEPT ![k] = [@ EXCEPT !.pc = "done", !.code = 429]]
    /\ UNCHANGED <<index, owner, nextInst>>
    /\ UNCHANGED <<podVars, cleanVars, getResp, leaderVars, mgrVars, delResp, gwCfg, createVars>>

\* CreateEnvInstance up to the backend call. fail is the status the handler
\* ends with before an instance exists: 400 (body or EnvName), 500 or 404
\* (GetEnvByVersion), 500 (envInstanceService.CreateEnvInstance); 0: none
CreateEnvInstance(k, fail) ==
    /\ rq[k].pc = "create"
    /\ IF fail = 0
       THEN /\ nextInst' = nextInst + 1
            /\ owner' = [owner EXCEPT ![nextInst + 1] = rq[k].token]
            /\ rq' = [rq EXCEPT ![k] = [@ EXCEPT !.pc = "store", !.inst = nextInst + 1]]
       ELSE /\ rq' = [rq EXCEPT ![k] = [@ EXCEPT !.pc = "done", !.code = fail]]
            /\ UNCHANGED <<owner, nextInst>>
    /\ UNCHANGED index
    /\ UNCHANGED <<podVars, cleanVars, getResp, leaderVars, mgrVars, delResp, gwCfg, createVars>>

\* a mutant of StoreEnvInstance: a store that fails fails the request
StoreEnvInstanceStrict(k, ok) ==
    /\ rq[k].pc = "store"
    /\ IF rq[k].token # Anon /\ redisClient
       THEN IF ok
            THEN /\ index' = [index EXCEPT ![rq[k].token] = @ \cup {rq[k].inst}]
                 /\ rq' = [rq EXCEPT ![k] = [@ EXCEPT !.pc = "done", !.code = 200, !.idx = "ok"]]
            ELSE /\ UNCHANGED index
                 /\ rq' = [rq EXCEPT ![k] = [@ EXCEPT !.pc = "done", !.code = 500, !.idx = "fail"]]
       ELSE /\ UNCHANGED index
            /\ rq' = [rq EXCEPT ![k] = [@ EXCEPT !.pc = "done", !.code = 200, !.idx = "skipped"]]
    /\ UNCHANGED <<owner, nextInst>>
    /\ UNCHANGED <<podVars, cleanVars, getResp, leaderVars, mgrVars, delResp, gwCfg, createVars>>

\* the rest of CreateEnvInstance: with a token and an index,
\* StoreEnvInstanceToRedis, whose failure is logged; then the success response
StoreEnvInstance(k, ok) ==
    /\ rq[k].pc = "store"
    /\ IF rq[k].token # Anon /\ redisClient
       THEN IF ok
            THEN /\ index' = [index EXCEPT ![rq[k].token] = @ \cup {rq[k].inst}]
                 /\ rq' = [rq EXCEPT ![k] = [@ EXCEPT !.pc = "done", !.code = 200, !.idx = "ok"]]
            ELSE /\ UNCHANGED index
                 /\ rq' = [rq EXCEPT ![k] = [@ EXCEPT !.pc = "done", !.code = 200, !.idx = "fail"]]
       ELSE /\ UNCHANGED index
            /\ rq' = [rq EXCEPT ![k] = [@ EXCEPT !.pc = "done", !.code = 200, !.idx = "skipped"]]
    /\ UNCHANGED <<owner, nextInst>>
    /\ UNCHANGED <<podVars, cleanVars, getResp, leaderVars, mgrVars, delResp, gwCfg, createVars>>

\* DeleteEnvInstance up to its response: envInstanceService.DeleteEnvInstance
\* fails (the backend is unreachable, or does not hold the instance) and the
\* request ends with 500, or succeeds and "Deleted successfully" is written
DeleteEnvInstance(k, apiOk) ==
    /\ rq[k].pc = "delete"
    /\ IF apiOk /\ owner[rq[k].inst] # 0
       THEN /\ owner' = [owner EXCEPT ![rq[k].inst] = 0]
            /\ rq' = [rq EXCEPT ![k] = [@ EXCEPT !.pc = "remove", !.code = 200, !.api = apiOk]]
       ELSE /\ rq' = [rq EXCEPT ![k] = [@ EXCEPT !.pc = "done", !.code = 500, !.api = apiOk]]
            /\ UNCHANGED owner
    /\ UNCHANGED <<index, nextInst>>
    /\ UNCHANGED <<podVars, cleanVars, getResp, leaderVars, mgrVars, delResp, gwCfg, createVars>>

\* the rest of DeleteEnvInstance: with a token and an index,
\* RemoveEnvInstanceFromRedis(token.Token, id), whose failure is logged
RemoveEnvInstance(k, ok) ==
    /\ rq[k].pc = "remove"
    /\ IF rq[k].token # Anon /\ redisClient
       THEN IF ok
            THEN /\ index' = [index EXCEPT ![rq[k].token] = @ \ {rq[k].inst}]
                 /\ rq' = [rq EXCEPT ![k] = [@ EXCEPT !.pc = "done", !.idx = "ok"]]
            ELSE /\ UNCHANGED index
                 /\ rq' = [rq EXCEPT ![k] = [@ EXCEPT !.pc = "done", !.idx = "fail"]]
       ELSE /\ UNCHANGED index
            /\ rq' = [rq EXCEPT ![k] = [@ EXCEPT !.pc = "done", !.idx = "skipped"]]
    /\ UNCHANGED <<owner, nextInst>>
    /\ UNCHANGED <<podVars, cleanVars, getResp, leaderVars, mgrVars, delResp, gwCfg, createVars>>

\* envInstanceService.ListEnvInstances: ScheduleClient's is not implemented;
\* EnvInstanceClient's asks the service, which may fail
BackendList(apiOk) ==
    IF scheduleType = "k8s" THEN [err |-> TRUE, data |-> {}]
    ELSE IF apiOk THEN [err |-> FALSE, data |-> LiveInstances]
    ELSE [err |-> TRUE, data |-> {}]

\* ListEnvInstances: 403 without a token; the index's list when an index is
\* configured and its read works; otherwise the backend's list, or 500
ListEnvInstances(k, indexOk, apiOk) ==
    /\ rq[k].pc = "list"
    /\ IF rq[k].token = Anon
       THEN rq' = [rq EXCEPT ![k] = [@ EXCEPT !.pc = "done", !.code = 403]]
       ELSE IF redisClient /\ indexOk
       THEN rq' = [rq EXCEPT ![k] = [@ EXCEPT !.pc = "done", !.code = 200, !.idx = "ok",
                                                  !.src = "index", !.data = index[rq[k].token]]]
       ELSE rq' = [rq EXCEPT ![k] =
                [@ EXCEPT !.pc = "done",
                          !.code = IF BackendList(apiOk).err THEN 500 ELSE 200,
                          !.idx = IF redisClient THEN "fail" ELSE "skipped",
                          !.src = "backend",
                          !.api = apiOk,
                          !.data = BackendList(apiOk).data]]
    /\ UNCHANGED <<index, owner, nextInst>>
    /\ UNCHANGED <<podVars, cleanVars, getResp, leaderVars, mgrVars, delResp, gwCfg, createVars>>

InitGwState ==
    /\ index = [t \in Tokens |-> {}]
    /\ owner = [i \in InstIds |-> 0]
    /\ nextInst = 0
    /\ rq = [k \in Reqs |-> NewReq]

\* the gateway as main configures it by default, with an index
InitGwVars ==
    /\ InitGwState
    /\ scheduleType = "k8s"
    /\ redisClient = TRUE

----------------------------------------------------------------------------
(* Specification of the cluster, the cache and the reclamation loop *)

(* Template Store and template merge (POST /pods) *)

\* an absent key of a DeployConfig map, and an absent label
Nil == <<"<nil>">>

\* resource.ParseQuantity on <digits><suffix>. A quantity is its number n of
\* units u: "milli" (suffix m), "one" (no suffix), "G" (10^9) or "Gi" (2^30).
\* For n below 2^21 two quantities are equal exactly when these canonical
\* forms are: 1000m is 1, 0 is 0 in every unit, and n G is never n' Gi.
Quantity(n, u) ==
    IF n = 0 THEN [n |-> 0, u |-> "one"]
    ELSE IF u = "milli" /\ n % 1000 = 0 THEN [n |-> n \div 1000, u |-> "one"]
    ELSE [n |-> n, u |-> u]

\* the zero Quantity a ResourceList gives for a key it does not hold
NoQuantity == [n |-> 0, u |-> "one"]

QuantityErr == [ok |-> FALSE, q |-> NoQuantity]

ParseQuantity(s) ==
    IF s = <<>> \/ s = Nil \/ Head(s) \notin Digits THEN QuantityErr
    ELSE LET li == leadingInt(s, 0)
         IN  IF li.rem = <<>> THEN [ok |-> TRUE, q |-> Quantity(li.x, "one")]
             ELSE IF li.rem = <<"m">> THEN [ok |-> TRUE, q |-> Quantity(li.x, "milli")]
             ELSE IF li.rem = <<"G">> THEN [ok |-> TRUE, q |-> Quantity(li.x, "G")]
             ELSE IF li.rem = <<"G", "i">> THEN [ok |-> TRUE, q |-> Quantity(li.x, "Gi")]
             ELSE QuantityErr            \* unable to parse quantity's suffix

\* a corev1.ResourceList: a nil map, or the quantities of cpu and memory
NilList == [nil |-> TRUE, cpu |-> NoQuantity, memory |-> NoQuantity]

ResourceList(cpu, memory) == [nil |-> FALSE, cpu |-> cpu, memory |-> memory]

Container(image, env, requests, limits) ==
    [Image |-> image, Env |-> env, Args |-> <<>>, Requests |-> requests, Limits |-> limits]

SingleContainerTemplate == "singleContainer"

\* the template kinds requests name
Kinds == {SingleContainerTemplate, "Terminal", "gpu"}

\* what a template path holds: no file, a file that is not a pod, or a pod
NoFile == [exists |-> FALSE, bad |-> FALSE, Containers |-> <<>>, ttl |-> Nil]

BadYaml == [exists |-> TRUE, bad |-> TRUE, Containers |-> <<>>, ttl |-> Nil]

PodTemplate(containers) == [exists |-> TRUE, bad |-> FALSE, Containers |-> containers, ttl |-> Nil]

\* the legacy path of a kind (loadPodTemplateFromLegacyPath)
legacyPath(machineType) ==
    IF machineType = "win64" THEN "windows"
    ELSE IF machineType = "Terminal" THEN "terminal"
    ELSE "linux"

LegacyPaths == {"linux", "windows", "terminal"}

\* LoadPodTemplateFromYaml over the files f: the mounted file of the kind,
\* else the file of its legacy path; an unreadable legacy file and a file that
\* does not unmarshal panic
LoadPodTemplateFromYaml(f, machineType) ==
    LET m == f.mounted[machineType]
        l == f.legacy[legacyPath(machineType)]
    IN  IF m.exists
        THEN IF m.bad THEN [panic |-> TRUE, pod |-> NoFile] ELSE [panic |-> FALSE, pod |-> m]
        ELSE IF ~l.exists \/ l.bad THEN [panic |-> TRUE, pod |-> NoFile]
        ELSE [panic |-> FALSE, pod |-> l]

\* e bound to x in Op(x): the value of an expression that is used many times
With(e, Op(_)) == CHOOSE r \in {Op(x) : x \in {e}} : TRUE

\* the outcome of a merge step: the container, or the panic of the handler
Merged(c) == [panic |-> FALSE, c |-> c]

MergePanic(c) == [panic |-> TRUE, c |-> c]

\* the append of applyConfig: the variables of the definition, in the order
\* ord the range over the map gives them, after those of the template
RECURSIVE appendEnv(_, _, _)
appendEnv(env, kv, ord) ==
    IF ord = <<>> THEN env
    ELSE appendEnv(Append(env, [Name |-> Head(ord), Value |-> kv[Head(ord)]]), kv, Tail(ord))

\* the stores of applyConfig into one ResourceList: a quantity is stored where
\* Cmp finds it different, and the store into a nil map panics
setQuantities(list, expectCpu, expectMemory) ==
    IF list.cpu = expectCpu /\ list.memory = expectMemory THEN [panic |-> FALSE, list |-> list]
    ELSE IF list.nil THEN [panic |-> TRUE, list |-> list]       \* assignment to entry in nil map
    ELSE [panic |-> FALSE, list |-> ResourceList(expectCpu, expectMemory)]


\* a DeployConfig map as POST /pods decodes it. A key that is absent is Nil
\* (podTemplate and resource: the empty string, which the code treats alike);
\* environmentVariables is the map itself, empty when the key is absent, and
\* arguments the JSON array. imagePrefix is a key only the gateway reads
DeployConfig(podTemplate, ttl, secondImageName, environmentVariables, arguments, resource, cpu, memory) ==
    [podTemplate |-> podTemplate, ttl |-> ttl, secondImageName |-> secondImageName, imagePrefix |-> Nil,
     environmentVariables |-> environmentVariables, arguments |-> arguments,
     resource |-> resource, cpu |-> cpu, memory |-> memory]

\* the dynamic type of a JSON array that createPod's json.Decode has put into
\* the map[string]interface{} of the deploy config, whatever slice the sender
\* marshalled
DecodedArrayType == "[]interface {}"

\* the arguments branch of applyConfig: configs["arguments"].([]string) holds
\* only for a value of that very type, and then a non-empty list is appended
appendArgs(args, arguments, dynType) ==
    IF dynType = "[]string" /\ Len(arguments) > 0 THEN args \o arguments ELSE args

\* a mutant of applyConfig: the resource marker is not looked at
applyConfigAlways(configs, container, ord) ==
    LET c1 == [container EXCEPT !.Env = appendEnv(container.Env, configs.environmentVariables, ord)]
    IN  IF ~ParseQuantity(configs.cpu).ok \/ ~ParseQuantity(configs.memory).ok THEN Merged(c1)
        ELSE Merged([c1 EXCEPT !.Requests = ResourceList(ParseQuantity(configs.cpu).q, ParseQuantity(configs.memory).q),
                               !.Limits = ResourceList(ParseQuantity(configs.cpu).q, ParseQuantity(configs.memory).q)])

\* applyConfig: the variables of the definition are appended (ord: the order
\* of the range over the map); arguments are appended only when the value is
\* a []string, which a decoded JSON array never is; the resources are set
\* only under the marker "autoscale", each where it differs. The type
\* assertion of an absent cpu or memory and the store into a nil map panic.
applyConfig(configs, container, ord) ==
    With([container EXCEPT !.Env = appendEnv(container.Env, configs.environmentVariables, ord),
                           !.Args = appendArgs(container.Args, configs.arguments, DecodedArrayType)],
         LAMBDA c1 :
            IF configs.resource # "autoscale" THEN Merged(c1)
            ELSE IF configs.cpu = Nil \/ configs.memory = Nil THEN MergePanic(c1)
            ELSE IF ~ParseQuantity(configs.cpu).ok THEN Merged(c1)
            ELSE IF ~ParseQuantity(configs.memory).ok THEN Merged(c1)
            ELSE With(setQuantities(c1.Requests, ParseQuantity(configs.cpu).q, ParseQuantity(configs.memory).q),
                      LAMBDA r :
                         IF r.panic THEN MergePanic(c1)
                         ELSE With(setQuantities(c1.Limits, ParseQuantity(configs.cpu).q, ParseQuantity(configs.memory).q),
                                   LAMBDA l :
                                      IF l.panic THEN MergePanic(c1)
                                      ELSE Merged([c1 EXCEPT !.Requests = r.list, !.Limits = l.list]))))

\* the merge of every container, and whether one of them panicked
mergeContainers(pod, m) ==
    [panic |-> \E i \in 1..Len(pod.Containers) : m[i].panic,
     pod |-> [pod EXCEPT !.Containers = [i \in 1..Len(pod.Containers) |-> m[i].c]]]

\* MergePodImage: every container gets the image of the definition's first
\* image artifact ("" without one), the second container secondImageName when
\* the key is there, and applyConfig. The templates here have no init container.
MergePodImage(pod, image, configs, ord) ==
    With([i \in 1..Len(pod.Containers) |->
             applyConfig(configs,
                         [pod.Containers[i] EXCEPT !.Image =
                             IF i = 2 /\ configs.secondImageName # Nil
                             THEN configs.secondImageName ELSE image],
                         ord)],
         LAMBDA m : mergeContainers(pod, m))


\* an HTTP answer: its status, the kind of its body ("json": the envelope,
\* "text": the plain text of http.Error, "none": nothing written) and the
\* success field of the envelope. A handler that panics answers nothing: the
\* server closes the connection (code 0)
Envelope(code, success) == [code |-> code, body |-> "json", success |-> success]

httpError(code) == [code |-> code, body |-> "text", success |-> FALSE]

Aborted == [code |-> 0, body |-> "none", success |-> FALSE]

\* model.AEnvHubEnv as POST /pods reads it: the name, the content of the first
\* image artifact and the deploy config
AEnvHubEnv(name, image, configs) == [Name |-> name, image |-> image, DeployConfig |-> configs]

NoConfig == DeployConfig("", Nil, Nil, <<>>, <<>>, "", Nil, Nil)

NoPost == [resp |-> Aborted, kind |-> "", env |-> AEnvHubEnv("", <<>>, NoConfig), panic |-> FALSE,
           submitted |-> FALSE, id |-> 0, pod |-> NoFile, template |-> NoFile, apiCode |-> 0]

\* the template kind a deploy config asks for (createPod)
templateTypeOf(cfg) == IF cfg.podTemplate # "" THEN cfg.podTemplate ELSE SingleContainerTemplate

\* createPod after the merge: the TTL label, the pod submitted, the answer
submitPod(env, loaded, merged, apiCode, id) ==
    LET labelled == IF env.DeployConfig.ttl # Nil THEN [merged.pod EXCEPT !.ttl = env.DeployConfig.ttl]
                    ELSE merged.pod
        base == [NoPost EXCEPT !.kind = templateTypeOf(env.DeployConfig), !.env = env, !.template = loaded.pod]
    IN  IF merged.panic \/ Len(loaded.pod.Containers) = 0
        THEN [base EXCEPT !.panic = TRUE]
        ELSE IF apiCode # 0
             THEN [base EXCEPT !.resp = httpError(handleK8sAPiError(apiCode)), !.pod = labelled,
                               !.apiCode = apiCode]
        ELSE [base EXCEPT !.resp = Envelope(201, TRUE), !.submitted = TRUE, !.id = id, !.pod = labelled]

\* what createPod answers and submits for a definition over the files f; id is
\* the pod the cluster would create, apiCode the answer of the cluster API
\* (0: created)
podOf(f, env, decodes, ord, apiCode, id) ==
    IF ~decodes THEN [NoPost EXCEPT !.resp = httpError(400)]
    ELSE With(LoadPodTemplateFromYaml(f, templateTypeOf(env.DeployConfig)),
              LAMBDA loaded :
                 IF loaded.panic
                 THEN [NoPost EXCEPT !.kind = templateTypeOf(env.DeployConfig), !.env = env, !.panic = TRUE]
                 ELSE With(MergePodImage(loaded.pod, env.image, env.DeployConfig, ord),
                           LAMBDA merged : submitPod(env, loaded, merged, apiCode, id)))


\* the aenv-ttl label of a pod as a label value: none is the empty string
labelOf(ttl) == IF ttl = Nil THEN <<>> ELSE ttl

\* AEnvPodHandler.createPod: the body decoded, the template of the kind loaded
\* and merged with the definition, the TTL label set, the pod submitted
createPod(env, decodes, ord, apiCode) ==
    /\ nextPod < MaxPods
    /\ \E r \in {podOf(files, env, decodes, ord, apiCode, nextPod + 1)} :
           /\ postResp' = r
           /\ IF r.submitted
              THEN /\ nextPod' = nextPod + 1
                   /\ cluster' = [cluster EXCEPT ![nextPod + 1] = Pod(labelOf(r.pod.ttl), now, "Running")]
              ELSE UNCHANGED <<nextPod, cluster>>
    /\ UNCHANGED <<now, cache, getResp, files, tokenVars, gwResp>>
    /\ UNCHANGED cleanVars
    /\ UNCHANGED <<leaderVars, gwVars, mgrVars, delResp>>

\* the pod templates of the model: a single container with a variable and
\* resources, two containers, and a single container without resources
FullList == ResourceList(Quantity(1, "one"), Quantity(1, "Gi"))

Templates ==
    {PodTemplate(<<[Container(<<"tmpl">>, <<[Name |-> "A", Value |-> "x"]>>, FullList, FullList)
                       EXCEPT !.Args = <<"-t">>]>>),
     PodTemplate(<<Container(<<"tmpl">>, <<>>, FullList, FullList),
                   Container(<<"tmpl">>, <<>>, FullList, FullList)>>),
     PodTemplate(<<Container(<<"tmpl">>, <<>>, NilList, NilList)>>)}

\* the files of a controller that has started: NewAEnvPodHandler has loaded
\* the template of SingleContainerTemplate without a panic
Started(f) == ~LoadPodTemplateFromYaml(f, SingleContainerTemplate).panic

DefaultFiles ==
    [mounted |-> [k \in Kinds |->
                     IF k = SingleContainerTemplate
                     THEN PodTemplate(<<Container(<<"tmpl">>, <<[Name |-> "A", Value |-> "x"]>>, FullList, FullList)>>)
                     ELSE NoFile],
     legacy |-> [l \in LegacyPaths |-> NoFile]]

----------------------------------------------------------------------------
(* Admission Gateway: the handlers of EnvInstanceController, each as a whole,
   over the Kubernetes-facing adapter (ScheduleClient) *)

\* CreateEnvInstanceRequest: binds tells whether ShouldBindJSON accepts the
\* body (envName is required); an optional field is [set, v]; Datasource and
\* TTL are the empty string when the body has none
Request(binds, envName, datasource, environmentVariables, arguments, ttl) ==
    [binds |-> binds, EnvName |-> envName, Datasource |-> datasource,
     EnvironmentVariables |-> environmentVariables, Arguments |-> arguments, TTL |-> ttl]

Unset == [set |-> FALSE, v |-> <<>>]

Set(v) == [set |-> TRUE, v |-> v]

\* the position of the first "@" of an identifier, 0 without one
RECURSIVE indexOf(_, _, _)
indexOf(s, ch, i) ==
    IF i > Len(s) THEN 0 ELSE IF s[i] = ch THEN i ELSE indexOf(s, ch, i + 1)

\* util.SplitEnvNameVersionStrict: name@version, an error without "@"
SplitEnvNameVersionStrict(s) ==
    LET at == indexOf(s, "@", 1)
    IN  IF at = 0 THEN [err |-> TRUE, name |-> <<>>, version |-> <<>>]
        ELSE [err |-> FALSE, name |-> SubSeq(s, 1, at - 1), version |-> SubSeq(s, at + 1, Len(s))]

\* what backendClient.GetEnvByVersion gives: an error, no environment (nil),
\* or the environment; nilConfig: its DeployConfig is a nil map
NoEnv == [err |-> FALSE, found |-> FALSE, nilConfig |-> FALSE, env |-> AEnvHubEnv("", <<>>, NoConfig)]

EnvErr == [NoEnv EXCEPT !.err = TRUE]

Env(name, image, configs) ==
    [err |-> FALSE, found |-> TRUE, nilConfig |-> FALSE, env |-> AEnvHubEnv(name, image, configs)]

EnvNilConfig(name, image) ==
    [err |-> FALSE, found |-> TRUE, nilConfig |-> TRUE, env |-> AEnvHubEnv(name, image, NoConfig)]

DefaultImagePrefix == <<"docker.io/library/aenv">>

\* a mutant of setDeployConfig: the image prefix of the definition is not read
setDeployConfigDefaultPrefix(req, e) ==
    LET c1 == IF req.Datasource # <<>>
              THEN [e.env.DeployConfig EXCEPT !.secondImageName = DefaultImagePrefix \o <<":">> \o req.Datasource]
              ELSE e.env.DeployConfig
    IN  [panic |-> FALSE, cfg |-> [c1 EXCEPT !.ttl = req.TTL]]

\* CreateEnvInstance, the deploy config it sends: secondImageName from the
\* datasource and the image prefix, the variables and arguments of the
\* request, the TTL of the request (the empty string without one). A store
\* into the nil map of a definition without deploy config panics; only a
\* datasource makes the map first.
setDeployConfig(req, e) ==
    LET cfg == e.env.DeployConfig
        imagePrefix == IF cfg.imagePrefix # Nil THEN cfg.imagePrefix ELSE DefaultImagePrefix
        c1 == IF req.Datasource # <<>>
              THEN [cfg EXCEPT !.secondImageName = imagePrefix \o <<":">> \o req.Datasource]
              ELSE cfg
        c2 == IF req.EnvironmentVariables.set
              THEN [c1 EXCEPT !.environmentVariables = req.EnvironmentVariables.v] ELSE c1
        c3 == IF req.Arguments.set THEN [c2 EXCEPT !.arguments = req.Arguments.v] ELSE c2
    IN  IF e.nilConfig /\ req.Datasource = <<>> THEN [panic |-> TRUE, cfg |-> cfg]
        ELSE [panic |-> FALSE, cfg |-> [c3 EXCEPT !.ttl = req.TTL]]

\* backendmodels.JSONErrorWithMessage and JSONSuccess: the gateway's envelope
JSONErrorWithMessage(code) == Envelope(code, FALSE)

JSONSuccess == Envelope(200, TRUE)

\* gin's Recovery middleware answers a handler's panic: 500, no body
Recovered == [code |-> 500, body |-> "none", success |-> FALSE]

NoGw == [op |-> "", resp |-> Aborted, req |-> Request(FALSE, <<>>, <<>>, Unset, Unset, <<>>),
         lookups |-> 0, backendCalls |-> 0, backendCode |-> 0, indexed |-> FALSE,
         cfg |-> NoConfig, id |-> 0, existed |-> FALSE]

\* ScheduleClient.CreatePod on the answer of POST /pods: an error unless the
\* status is 200 or 201 and the envelope says success
CreatePodErr(r) == r.resp.code \notin {200, 201} \/ r.resp.body # "json" \/ ~r.resp.success

\* the answer of CreateEnvInstance once POST /pods has answered post
createAnswer(req, cfg, post) ==
    LET sent == [NoGw EXCEPT !.op = "create", !.req = req, !.lookups = 1, !.backendCalls = 1,
                             !.backendCode = post.resp.code, !.cfg = cfg]
    IN  IF CreatePodErr(post)
        THEN [gw |-> [sent EXCEPT !.resp = JSONErrorWithMessage(500)], post |-> post, called |-> TRUE]
        ELSE [gw |-> [sent EXCEPT !.resp = JSONSuccess, !.id = post.id], post |-> post, called |-> TRUE]

\* a mutant of createEnvInstance: the environment is looked up before the
\* identifier is checked
createEnvInstanceLookupFirst(f, req, e, ord, apiCode, id) ==
    LET base == [NoGw EXCEPT !.op = "create", !.req = req]
        looked == [base EXCEPT !.lookups = 1]
    IN  IF ~req.binds
        THEN [gw |-> [base EXCEPT !.resp = JSONErrorWithMessage(400)], post |-> NoPost, called |-> FALSE]
        ELSE IF e.err
        THEN [gw |-> [looked EXCEPT !.resp = JSONErrorWithMessage(500)], post |-> NoPost, called |-> FALSE]
        ELSE IF ~e.found
        THEN [gw |-> [looked EXCEPT !.resp = JSONErrorWithMessage(404)], post |-> NoPost, called |-> FALSE]
        ELSE IF SplitEnvNameVersionStrict(req.EnvName).err
        THEN [gw |-> [looked EXCEPT !.resp = JSONErrorWithMessage(400)], post |-> NoPost, called |-> FALSE]
        ELSE With(setDeployConfig(req, e),
                  LAMBDA dc :
                     IF dc.panic
                     THEN [gw |-> [looked EXCEPT !.resp = Recovered], post |-> NoPost, called |-> FALSE]
                     ELSE With(podOf(f, [e.env EXCEPT !.DeployConfig = dc.cfg], TRUE, ord, apiCode, id),
                               LAMBDA post : createAnswer(req, dc.cfg, post)))

\* EnvInstanceController.CreateEnvInstance up to the answer of the backend:
\* the answer of the gateway and, when the backend was called, that of POST /pods
createEnvInstance(f, req, e, ord, apiCode, id) ==
    LET base == [NoGw EXCEPT !.op = "create", !.req = req]
        looked == [base EXCEPT !.lookups = 1]
    IN  IF ~req.binds
        THEN [gw |-> [base EXCEPT !.resp = JSONErrorWithMessage(400)], post |-> NoPost, called |-> FALSE]
        ELSE IF SplitEnvNameVersionStrict(req.EnvName).err
        THEN [gw |-> [base EXCEPT !.resp = JSONErrorWithMessage(400)], post |-> NoPost, called |-> FALSE]
        ELSE IF e.err
        THEN [gw |-> [looked EXCEPT !.resp = JSONErrorWithMessage(500)], post |-> NoPost, called |-> FALSE]
        ELSE IF ~e.found
        THEN [gw |-> [looked EXCEPT !.resp = JSONErrorWithMessage(404)], post |-> NoPost, called |-> FALSE]
        ELSE With(setDeployConfig(req, e),
                  LAMBDA dc :
                     IF dc.panic
                     THEN [gw |-> [looked EXCEPT !.resp = Recovered], post |-> NoPost, called |-> FALSE]
                     ELSE With(podOf(f, [e.env EXCEPT !.DeployConfig = dc.cfg], TRUE, ord, apiCode, id),
                               LAMBDA post : createAnswer(req, dc.cfg, post)))

\* a mutant of CreateEnvInstanceReq: the instance is stored in the index as
\* soon as the backend has been called, whatever it answered
CreateEnvInstanceReqStoreFirst(t, req, e, ord, apiCode, storeOk) ==
    /\ nextPod < MaxPods
    /\ \E r \in {createEnvInstance(files, req, e, ord, apiCode, nextPod + 1)} :
       LET stored == r.called /\ t # Anon /\ redisClient /\ storeOk
       IN  /\ gwResp' = [r.gw EXCEPT !.indexed = stored]
           /\ postResp' = IF r.called THEN r.post ELSE postResp
           /\ IF r.called /\ r.post.submitted
              THEN /\ nextPod' = nextPod + 1
                   /\ cluster' = [cluster EXCEPT ![nextPod + 1] = Pod(labelOf(r.post.pod.ttl), now, "Running")]
              ELSE UNCHANGED <<nextPod, cluster>>
           /\ index' = IF stored THEN [index EXCEPT ![t] = @ \cup {nextPod + 1}] ELSE index
    /\ UNCHANGED <<now, cache, getResp, files, tokenVars>>
    /\ UNCHANGED cleanVars
    /\ UNCHANGED <<owner, nextInst, rq, gwCfg>>
    /\ UNCHANGED <<leaderVars, mgrVars, delResp>>

\* POST /env-instance by the caller of token t (Anon: none): the handler, the
\* POST /pods of its backend call, and the store into the caller's index
\* (storeOk: the store succeeds; a failure is logged)
CreateEnvInstanceReq(t, req, e, ord, apiCode, storeOk) ==
    /\ nextPod < MaxPods
    /\ \E r \in {createEnvInstance(files, req, e, ord, apiCode, nextPod + 1)} :
       LET stored == r.gw.resp.code = 200 /\ t # Anon /\ redisClient /\ storeOk
       IN  /\ gwResp' = [r.gw EXCEPT !.indexed = stored]
           /\ postResp' = IF r.called THEN r.post ELSE postResp
           /\ IF r.called /\ r.post.submitted
              THEN /\ nextPod' = nextPod + 1
                   /\ cluster' = [cluster EXCEPT ![nextPod + 1] = Pod(labelOf(r.post.pod.ttl), now, "Running")]
              ELSE UNCHANGED <<nextPod, cluster>>
           /\ index' = IF stored THEN [index EXCEPT ![t] = @ \cup {nextPod + 1}] ELSE index
    /\ UNCHANGED <<now, cache, getResp, files, tokenVars>>
    /\ UNCHANGED cleanVars
    /\ UNCHANGED <<owner, nextInst, rq, gwCfg>>
    /\ UNCHANGED <<leaderVars, mgrVars, delResp>>

\* EnvInstanceController.Warmup over ScheduleClient.Warmup, which is not
\* implemented: the identifier checked, the environment looked up, the backend
\* called
warmup(id, e) ==
    LET sp == SplitEnvNameVersionStrict(id)
        base == [NoGw EXCEPT !.op = "warmup", !.req = Request(TRUE, id, <<>>, Unset, Unset, <<>>)]
        looked == [base EXCEPT !.lookups = 1]
    IN  IF id = <<>> THEN [base EXCEPT !.resp = JSONErrorWithMessage(400)]
        ELSE IF sp.err THEN [base EXCEPT !.resp = JSONErrorWithMessage(400)]
        ELSE IF e.err THEN [looked EXCEPT !.resp = JSONErrorWithMessage(500)]
        ELSE IF ~e.found THEN [looked EXCEPT !.resp = JSONErrorWithMessage(404)]
        ELSE [looked EXCEPT !.backendCalls = 1, !.resp = JSONErrorWithMessage(500)]

WarmupReq(id, e) ==
    /\ gwResp' = warmup(id, e)
    /\ UNCHANGED <<files, tokenVars, postResp>>
    /\ UNCHANGED <<podVars, cleanVars, getResp, delResp, leaderVars, gwVars, mgrVars>>

\* EnvInstanceController.GetEnvInstance over ScheduleClient.GetPod: every
\* error of the backend, a status other than 200 included, is answered 500
getEnvInstance(c, cl, id, apiCode) ==
    LET r == getPod(c, cl, id, apiCode)
        base == [NoGw EXCEPT !.op = "get", !.id = id, !.backendCalls = 1, !.backendCode = r.code,
                             !.existed = c[id].exists \/ cl[id].exists]
    IN  IF r.code # 200 THEN [base EXCEPT !.resp = JSONErrorWithMessage(500)]
        ELSE [base EXCEPT !.resp = JSONSuccess]

GetEnvInstanceReq(id, apiCode) ==
    /\ gwResp' = getEnvInstance(cache, cluster, id, apiCode)
    /\ UNCHANGED <<files, tokenVars, postResp>>
    /\ UNCHANGED <<podVars, cleanVars, getResp, delResp, leaderVars, gwVars, mgrVars>>

\* EnvInstanceController.DeleteEnvInstance over ScheduleClient.DeleteEnvInstance
deleteEnvInstance(cl, id, apiCode) ==
    LET d == DeletePod(cl, id, apiCode)
        base == [NoGw EXCEPT !.op = "delete", !.id = id, !.backendCalls = 1, !.backendCode = d.code,
                             !.existed = cl[id].exists]
    IN  IF d.err THEN [base EXCEPT !.resp = JSONErrorWithMessage(500)]
        ELSE [base EXCEPT !.resp = JSONSuccess]

\* DELETE /env-instance/:id by the caller of token t: the handler, the delete
\* of its backend call, and the remove from the caller's index
DeleteEnvInstanceReq(t, id, apiCode, removeOk) ==
    /\ \E r \in {deleteEnvInstance(cluster, id, apiCode)} :
       LET removed == r.resp.code = 200 /\ t # Anon /\ redisClient /\ removeOk
       IN  /\ gwResp' = [r EXCEPT !.indexed = removed]
           /\ cluster' = DeletePod(cluster, id, apiCode).cluster
           /\ index' = IF removed THEN [index EXCEPT ![t] = @ \ {id}] ELSE index
    /\ UNCHANGED <<now, cache, nextPod, getResp, files, tokenVars, postResp>>
    /\ UNCHANGED cleanVars
    /\ UNCHANGED <<owner, nextInst, rq, gwCfg>>
    /\ UNCHANGED <<leaderVars, mgrVars, delResp>>

(* Token validation cache (BackendClient): Validate(token) *)

\* the tokens presented: one more than the cache holds
CacheTokens == 1..(tokenCacheMaxEntries + 1)

\* the number of Validate calls followed
MaxUses == tokenCacheMaxEntries + 2

\* the index of the entry of a token in the cache, 0 when it has none
RECURSIVE entryOf(_, _, _)
entryOf(c, token, i) ==
    IF i > Len(c) THEN 0
    ELSE IF c[i].token = token THEN i
    ELSE entryOf(c, token, i + 1)

\* the cache without its entry i
without(c, i) == [j \in 1..(Len(c) - 1) |-> IF j < i THEN c[j] ELSE c[j + 1]]

\* an entry stored at time at is stale once more than the TTL has passed
stale(entry, t) == t - entry.at > tokenCacheTTLMinutes

\* a mutant of Validate: a hit does not make its entry the most recently used
ValidateNoTouch(c, token, backendOk, t) ==
    LET i == entryOf(c, token, 1)
    IN  IF i # 0 /\ ~stale(c[i], t)
        THEN [cache |-> c, called |-> FALSE, ok |-> c[i].ok]
        ELSE LET c1 == Append(IF i # 0 THEN without(c, i) ELSE c,
                              [token |-> token, at |-> t, ok |-> backendOk])
             IN  [cache |-> IF Len(c1) > tokenCacheMaxEntries THEN Tail(c1) ELSE c1,
                  called |-> TRUE, ok |-> backendOk]

\* a mutant of Validate: an entry is a hit whatever its age
ValidateNoTTL(c, token, backendOk, t) ==
    LET i == entryOf(c, token, 1)
    IN  IF i # 0
        THEN [cache |-> Append(without(c, i), c[i]), called |-> FALSE, ok |-> c[i].ok]
        ELSE LET c1 == Append(c, [token |-> token, at |-> t, ok |-> backendOk])
             IN  [cache |-> IF Len(c1) > tokenCacheMaxEntries THEN Tail(c1) ELSE c1,
                  called |-> TRUE, ok |-> backendOk]

\* Validate at time t: a hit within the TTL answers from the cache and makes
\* the entry the most recently used; a miss or a stale entry calls the backend
\* identity check (backendOk: its answer), stores the result and evicts the
\* least recently used entry once the maximum entry count is exceeded
Validate(c, token, backendOk, t) ==
    LET i == entryOf(c, token, 1)
    IN  IF i # 0 /\ ~stale(c[i], t)
        THEN [cache |-> Append(without(c, i), c[i]), called |-> FALSE, ok |-> c[i].ok]
        ELSE LET c1 == Append(IF i # 0 THEN without(c, i) ELSE c,
                              [token |-> token, at |-> t, ok |-> backendOk])
             IN  [cache |-> IF Len(c1) > tokenCacheMaxEntries THEN Tail(c1) ELSE c1,
                  called |-> TRUE, ok |-> backendOk]

NoVal == [token |-> 0, called |-> FALSE, ok |-> FALSE, at |-> 0]

\* a request's token is validated: the answer, with the time it was given at
ValidateReq(token, backendOk) ==
    /\ Len(useLog) < MaxUses
    /\ \E r \in {Validate(tcache, token, backendOk, now)} :
          /\ tcache' = r.cache
          /\ valResp' = [token |-> token, called |-> r.called, ok |-> r.ok, at |-> now]
          /\ useLog' = Append(useLog, [token |-> token, called |-> r.called, ok |-> r.ok, at |-> now])
    /\ UNCHANGED <<podVars, cleanVars, getResp, delResp, leaderVars, gwVars, mgrVars>>
    /\ UNCHANGED <<files, postResp, gwResp>>

NoDel == [id |-> 0, code |-> 0, err |-> FALSE, existed |-> FALSE, apiCode |-> 0]

NoResp == [id |-> 0, code |-> 0, inCache |-> FALSE, inCluster |-> FALSE, apiCode |-> 0, pod |-> NoPod]

InitPodState ==
    /\ now = 0
    /\ cluster = [id \in PodIds |-> NoPod]
    /\ cache = [id \in PodIds |-> NoPod]
    /\ nextPod = 0
    /\ cpc = [c \in Cleaners |-> "idle"]
    /\ envInstances = [c \in Cleaners |-> <<>>]
    /\ cIdx = [c \in Cleaners |-> 0]
    /\ deletedCount = [c \in Cleaners |-> 0]
    /\ cResult = [c \in Cleaners |-> "none"]
    /\ attempted = [c \in Cleaners |-> [id \in PodIds |-> 0]]
    /\ getResp = NoResp
    /\ delResp = NoDel
    /\ postResp = NoPost
    /\ gwResp = NoGw
    /\ tcache = <<>>
    /\ useLog = <<>>
    /\ valResp = NoVal
    /\ mpc = [c \in Cleaners |-> "new"]
    /\ tickPending = [c \in Cleaners |-> FALSE]
    /\ cancelled = [c \in Cleaners |-> FALSE]

\* a controller started over the default files
InitPodVars == InitPodState /\ files = DefaultFiles

InitPods == InitPodVars /\ InitLeaderVars /\ InitGwVars

NextPods ==
    \/ \E ttl \in TTLLabels : CreatePod(ttl)
    \/ \E id \in PodIds : WatchDeliver(id)
    \/ \E id \in PodIds : PhaseChange(id, "Terminated")
    \/ AdvanceTime
    \/ StartPass(1)
    \/ FilterPodsOk(1)
    \/ FilterPodsFail(1)
    \/ CleanupSkip(1)
    \/ \E id \in PodIds : CleanupDelete(1, id)
    \/ \E id \in PodIds : CleanupDeleteFail(1, id)
    \/ CleanupReturn(1)

SpecPods == InitPods /\ [][NextPods]_vars

(* The scan of the cache alone: pods are created with any label, reach the
   cache, age, and passes list them and delete what they were given. *)
NextScan ==
    \/ \E ttl \in TTLLabels : CreatePod(ttl)
    \/ \E id \in PodIds : WatchDeliver(id)
    \/ AdvanceTime
    \/ StartPass(1)
    \/ FilterPodsOk(1)
    \/ \E id \in PodIds : CleanupDelete(1, id)
    \/ CleanupReturn(1)

SpecScan == InitPods /\ [][NextScan]_vars

\* The reclamation loop under the scheduling the code gives it: the ticker
\* keeps firing, a started pass keeps running, the watch delivers every event,
\* and a request that can succeed does not fail forever.
NextPodsLive ==
    \/ \E ttl \in TTLLabels : nextPod < MaxLivePods /\ CreatePod(ttl)
    \/ \E id \in PodIds : WatchDeliver(id)
    \/ \E id \in PodIds : PhaseChange(id, "Terminated")
    \/ AdvanceTime
    \/ StartPass(1)
    \/ FilterPodsOk(1)
    \/ FilterPodsFail(1)
    \/ CleanupSkip(1)
    \/ \E id \in PodIds : CleanupDelete(1, id)
    \/ \E id \in PodIds : CleanupDeleteFail(1, id)
    \/ CleanupReturn(1)

SpecPodsLive ==
    /\ InitPods
    /\ [][NextPodsLive]_vars
    /\ WF_vars(StartPass(1))
    /\ SF_vars(FilterPodsOk(1))
    /\ WF_vars(CleanupSkip(1))
    /\ WF_vars(CleanupReturn(1))
    /\ \A id \in PodIds : WF_vars(WatchDeliver(id))
    /\ \A id \in PodIds : SF_vars(CleanupDelete(1, id))

----------------------------------------------------------------------------
(* Specification of reads: creates, deletes, watch events and GET /pods/{id} *)

NextRead ==
    \/ \E ttl \in TTLLabels : CreatePod(ttl)
    \/ \E id \in PodIds : WatchDeliver(id)
    \/ \E id \in PodIds : PhaseChange(id, "Failed")
    \/ \E id \in PodIds : UserDelete(id)
    \/ \E id \in PodIds, apiCode \in {0, 500} : GetPodReq(id, apiCode)

SpecRead == InitPods /\ [][NextRead]_vars

----------------------------------------------------------------------------
(* Specification of DELETE /pods/{id} *)

NextDelete ==
    \/ \E ttl \in TTLLabels : CreatePod(ttl)
    \/ \E id \in PodIds : WatchDeliver(id)
    \/ \E id \in PodIds, apiCode \in {0, 500} : DeletePodReq(id, apiCode)

SpecDelete == InitPods /\ [][NextDelete]_vars

----------------------------------------------------------------------------
(* Specification of the reclamation loop over pods of every phase *)

NextPhases ==
    \/ NextPodsLive
    \/ \E id \in PodIds : PhaseChange(id, "Failed")

SpecPhases == InitPods /\ [][NextPhases]_vars

----------------------------------------------------------------------------
(* Specification of the reclamation loop as AEnvCleanManager drives it *)

NextLoop ==
    \/ nextPod < MaxLivePods /\ CreatePod(<<"1", "s">>)
    \/ \E id \in PodIds : WatchDeliver(id)
    \/ \E id \in PodIds : PhaseChange(id, "Terminated")
    \/ Start(1)
    \/ StartTicker(1)
    \/ TickerFires(1)
    \/ TickerCase(1)
    \/ PassDone(1)
    \/ DoneCase(1)
    \/ Stop(1)
    \/ FilterPodsOk(1)
    \/ FilterPodsFail(1)
    \/ CleanupSkip(1)
    \/ \E id \in PodIds : CleanupDelete(1, id)
    \/ \E id \in PodIds : CleanupDeleteFail(1, id)
    \/ CleanupReturn(1)

SpecLoop == InitPods /\ [][NextLoop]_vars

\* The loop under the scheduling the code gives it: main calls Start, every
\* request of a pass returns (the HTTP client times out after 30 s), a
\* goroutine that can run does, and a select with two ready cases takes each
\* of them in the long run.
SpecLoopLive ==
    /\ InitPods
    /\ [][NextLoop]_vars
    /\ WF_vars(Start(1))
    /\ WF_vars(StartTicker(1))
    /\ WF_vars(PassDone(1))
    /\ SF_vars(DoneCase(1))
    /\ WF_vars(FilterPodsOk(1) \/ FilterPodsFail(1))
    /\ WF_vars(\E apiCode \in {0, 500} : CleanupIter(1, apiCode))
    /\ WF_vars(CleanupReturn(1))

----------------------------------------------------------------------------
(* Specification of the controller replicas *)

InitLeader == InitPodVars /\ InitLeaderVars /\ InitGwVars

NextLeader ==
    \/ \E r \in Replicas : Acquire(r)
    \/ \E r \in Replicas : Renew(r)
    \/ \E r \in Replicas : LoseLease(r)
    \/ \E r \in Replicas : Shutdown(r)
    \/ \E r \in Replicas : Restart(r)
    \/ AdvanceLease
    \/ \E r \in Replicas : StoreLeader(r)
    \/ \E r \in Replicas : StartHttpServer(r)
    \/ \E r \in Replicas : InformerSync(r)
    \/ \E r \in Replicas : ListenAndServe(r)
    \/ \E r \in Replicas : Readyz(r)
    \/ \E r \in Replicas : CrudRequest(r)

SpecLeader == InitLeader /\ [][NextLeader]_vars

----------------------------------------------------------------------------
(* Specification of the gateway's create path *)

InitQuota == InitPodVars /\ InitLeaderVars /\ InitGwVars

NextQuota ==
    \/ \E k \in Reqs, t \in Tokens : Arrive(k, "create", t, 0)
    \/ \E k \in Reqs : AuthTokenMiddleware(k, TRUE)
    \/ \E k \in Reqs, indexUp \in BOOLEAN : InstanceLimitMiddleware(k, indexUp)
    \/ \E k \in Reqs : RateLimit(k, TRUE)
    \/ \E k \in Reqs, fail \in {0, 500} : CreateEnvInstance(k, fail)
    \/ \E k \in Reqs, ok \in BOOLEAN : StoreEnvInstance(k, ok)

SpecQuota == InitQuota /\ [][NextQuota]_vars

----------------------------------------------------------------------------
(* Specification of the gateway's routes: create, delete and list, with or *)
(* without an index, over either Instance Backend                          *)

InitGateway ==
    /\ InitPodVars /\ InitLeaderVars /\ InitGwState
    /\ scheduleType \in {"k8s", "standard"}
    /\ redisClient \in BOOLEAN

NextGateway ==
    \/ \E k \in 1..MaxGwReqs, t \in Tokens \cup {Anon} : Arrive(k, "create", t, 0)
    \/ \E k \in 1..MaxGwReqs, t \in Tokens \cup {Anon}, id \in InstIds : Arrive(k, "delete", t, id)
    \/ \E k \in 1..MaxGwReqs, t \in Tokens \cup {Anon} : Arrive(k, "list", t, 0)
    \/ \E k \in Reqs, valid \in BOOLEAN : AuthTokenMiddleware(k, valid)
    \/ \E k \in Reqs, indexUp \in BOOLEAN : InstanceLimitMiddleware(k, indexUp)
    \/ \E k \in Reqs, allowed \in BOOLEAN : RateLimit(k, allowed)
    \/ \E k \in Reqs, fail \in {0, 400, 404, 500} : CreateEnvInstance(k, fail)
    \/ \E k \in Reqs, ok \in BOOLEAN : StoreEnvInstance(k, ok)
    \/ \E k \in Reqs, apiOk \in BOOLEAN : DeleteEnvInstance(k, apiOk)
    \/ \E k \in Reqs, ok \in BOOLEAN : RemoveEnvInstance(k, ok)
    \/ \E k \in Reqs, indexOk \in BOOLEAN, apiOk \in BOOLEAN : ListEnvInstances(k, indexOk, apiOk)

SpecGateway == InitGateway /\ [][NextGateway]_vars

----------------------------------------------------------------------------
(* Specification of the index updates of create and delete: requests of one *)
(* tenant and requests without a token, one after the other, with or        *)
(* without an index                                                         *)

InitIndex ==
    /\ InitPodVars /\ InitLeaderVars /\ InitGwState
    /\ scheduleType = "k8s"
    /\ redisClient \in BOOLEAN

NextIndex ==
    \/ \E k \in 1..MaxIdxReqs, t \in {1, Anon} :
          /\ nextInst + Cardinality({j \in Reqs : rq[j].op = "create" /\ rq[j].pc \notin {"store", "done"}})
                < MaxIdxReqs
          /\ Arrive(k, "create", t, 0)
    \/ \E k \in 1..MaxIdxReqs, t \in {1, Anon}, id \in 1..MaxIdxReqs : Arrive(k, "delete", t, id)
    \/ \E k \in Reqs, valid \in BOOLEAN : AuthTokenMiddleware(k, valid)
    \/ \E k \in Reqs, indexUp \in BOOLEAN : InstanceLimitMiddleware(k, indexUp)
    \/ \E k \in Reqs, allowed \in BOOLEAN : RateLimit(k, allowed)
    \/ \E k \in Reqs, fail \in {0, 400, 404, 500} : CreateEnvInstance(k, fail)
    \/ \E k \in Reqs, ok \in BOOLEAN : StoreEnvInstance(k, ok)
    \/ \E k \in Reqs, apiOk \in BOOLEAN : DeleteEnvInstance(k, apiOk)
    \/ \E k \in Reqs, ok \in BOOLEAN : RemoveEnvInstance(k, ok)
    \/ \E k \in Reqs : Respond(k)

SpecIndex == InitIndex /\ [][NextIndex]_vars

----------------------------------------------------------------------------
(* Specification of the TTL of created instances: every instance is created
   through POST /env-instance, with a TTL or without one, and the loop
   reclaims under the scheduling of SpecPodsLive. *)

\* the definition the registry holds for foo@1: an image, the default kind
FooEnv == Env(<<"foo">>, <<"img">>, DeployConfig("", Nil, Nil, <<>>, <<>>, "", Nil, Nil))

FooName == <<"foo", "@", "1">>

NextDefaultTTL ==
    \/ \E ttl \in {<<>>, <<"1", "s">>} :
          /\ nextPod < MaxLivePods
          /\ CreateEnvInstanceReq(Anon, Request(TRUE, FooName, <<>>, Unset, Unset, ttl),
                                  FooEnv, <<>>, 0, TRUE)
    \/ \E id \in PodIds : WatchDeliver(id)
    \/ \E id \in PodIds : PhaseChange(id, "Terminated")
    \/ AdvanceTime
    \/ StartPass(1)
    \/ FilterPodsOk(1)
    \/ FilterPodsFail(1)
    \/ CleanupSkip(1)
    \/ \E id \in PodIds : CleanupDelete(1, id)
    \/ \E id \in PodIds : CleanupDeleteFail(1, id)
    \/ CleanupReturn(1)

SpecDefaultTTL ==
    /\ InitPods
    /\ [][NextDefaultTTL]_vars
    /\ WF_vars(StartPass(1))
    /\ SF_vars(FilterPodsOk(1))
    /\ WF_vars(CleanupSkip(1))
    /\ WF_vars(CleanupReturn(1))
    /\ WF_vars(AdvanceTime)
    /\ \A id \in PodIds : WF_vars(WatchDeliver(id))
    /\ \A id \in PodIds : SF_vars(CleanupDelete(1, id))

----------------------------------------------------------------------------
(* Specification of the gateway's create and warmup: requests with
   well-formed and malformed identifiers, environments the registry knows,
   does not know or cannot give, with and without a deploy config. *)

\* POST /env-instance did not bind: the request envName is missing
NoBind == Request(FALSE, <<>>, <<>>, Unset, Unset, <<>>)

Names == {FooName, <<"foo">>}

Lookups == {FooEnv, NoEnv, EnvErr, EnvNilConfig(<<"foo">>, <<"img">>)}

InitCreate ==
    /\ InitPodVars /\ InitLeaderVars /\ InitGwState
    /\ scheduleType = "k8s"
    /\ redisClient \in BOOLEAN

NextCreate ==
    \/ \E t \in {1, Anon}, name \in Names, ds \in {<<>>, <<"ds">>}, e \in Lookups,
          apiCode \in {0, 500}, storeOk \in BOOLEAN :
          CreateEnvInstanceReq(t, Request(TRUE, name, ds, Unset, Unset, <<"1", "s">>),
                               e, <<>>, apiCode, storeOk)
    \/ \E e \in Lookups : CreateEnvInstanceReq(Anon, NoBind, e, <<>>, 0, TRUE)
    \/ \E id \in Names \cup {<<>>}, e \in Lookups : WarmupReq(id, e)
    \/ \E id \in PodIds : WatchDeliver(id)

SpecCreate == InitCreate /\ [][NextCreate]_vars

\* the answers of the cluster API to a call of the controller: 0 for none of
\* its own (the call succeeds, or fails as not found when the pod is absent),
\* the code of a status error, or an error that is no status error
ApiCodes == {0, 202, 400, 401, 403, 404, 409, 503, NonStatus}

\* creates, and the reads and deletes of the first pod
NextStatus ==
    \/ \E apiCode \in ApiCodes : nextPod < MaxLivePods /\ createPod(FooEnv.env, TRUE, <<>>, apiCode)
    \/ \E apiCode \in ApiCodes : GetPodReq(1, apiCode)
    \/ \E apiCode \in ApiCodes : DeletePodReq(1, apiCode)
    \/ WatchDeliver(1)

SpecStatus == InitPods /\ [][NextStatus]_vars

\* the gateway's instance routes over the controller: create, get and delete
NextInstance ==
    \/ \E t \in {1, Anon}, ttl \in {<<>>, <<"1", "s">>} :
          CreateEnvInstanceReq(t, Request(TRUE, FooName, <<"ds">>, Unset, Unset, ttl), FooEnv, <<>>, 0, TRUE)
    \/ \E id \in PodIds, apiCode \in {0, 500} : GetEnvInstanceReq(id, apiCode)
    \/ \E t \in {1, Anon}, id \in PodIds, apiCode \in {0, 500}, removeOk \in BOOLEAN :
          DeleteEnvInstanceReq(t, id, apiCode, removeOk)
    \/ \E id \in PodIds : WatchDeliver(id)

SpecInstance == InitCreate /\ [][NextInstance]_vars

\* the two-container template and the template without resources
DualTemplate ==
    PodTemplate(<<Container(<<"tmpl">>, <<>>, FullList, FullList),
                  Container(<<"tmpl">>, <<>>, FullList, FullList)>>)

BareTemplate == PodTemplate(<<Container(<<"tmpl">>, <<>>, NilList, NilList)>>)

\* the files a started controller may run over: one of the templates mounted
\* for SingleContainerTemplate, nothing mounted for "gpu", and either the
\* two-container template mounted for "Terminal" and no legacy file, or
\* nothing mounted for "Terminal" and the linux legacy file
StartedFiles ==
    {f \in {[mounted |-> [k \in Kinds |-> IF k = SingleContainerTemplate THEN t
                                          ELSE IF k = "Terminal" /\ mountedTerminal THEN DualTemplate
                                          ELSE NoFile],
             legacy |-> [l \in LegacyPaths |-> IF l = "linux" /\ ~mountedTerminal THEN BareTemplate
                                               ELSE NoFile]] :
                t \in Templates, mountedTerminal \in BOOLEAN} : Started(f)}

\* the variables of a definition with the order the range over the map takes
EnvVarMaps ==
    {[kv |-> <<>>, ord |-> <<>>],
     [kv |-> [n \in {"A"} |-> "y"], ord |-> <<"A">>],
     [kv |-> [n \in {"B"} |-> "z"], ord |-> <<"B">>]}

\* the cpu and memory of a definition: none, 2 and 4G, the unparsable 1C, the
\* 1 and 1Gi the templates hold, and a memory of 9Gi
CpuMemory ==
    {[cpu |-> Nil, memory |-> Nil],
     [cpu |-> <<"2">>, memory |-> <<"4", "G">>],
     [cpu |-> <<"1", "C">>, memory |-> <<"4", "G">>],
     [cpu |-> <<"1">>, memory |-> <<"1", "G", "i">>],
     [cpu |-> <<"2">>, memory |-> <<"9", "G", "i">>]}

InitMerge ==
    /\ InitPodState /\ InitLeaderVars /\ InitGwVars
    /\ files \in StartedFiles

NextMerge ==
    \/ \E kind \in {"", "Terminal", "gpu"}, ev \in EnvVarMaps,
          resource \in {"", "fixed", "autoscale"}, cm \in CpuMemory :
          /\ nextPod < MaxLivePods
          /\ createPod(AEnvHubEnv(<<"foo">>, <<"img">>,
                                  DeployConfig(kind, <<"1", "s">>, Nil, ev.kv, <<>>, resource, cm.cpu, cm.memory)),
                       TRUE, ev.ord, 0)
    \/ createPod(AEnvHubEnv("", <<>>, NoConfig), FALSE, <<>>, 0)
    \/ /\ nextPod < MaxLivePods
       /\ CreateEnvInstanceReq(Anon, Request(TRUE, FooName, <<>>, Unset, Set(<<"-v">>), <<>>),
                               FooEnv, <<>>, 0, TRUE)
    \/ \E name \in Names, ds \in {<<>>, <<"ds">>}, prefix \in {Nil, <<"p">>}, kind \in {"", "Terminal"} :
          /\ nextPod < MaxLivePods
          /\ CreateEnvInstanceReq(Anon, Request(TRUE, name, ds, Unset, Unset, <<>>),
                                  Env(<<"foo">>, <<"img">>,
                                      [DeployConfig(kind, Nil, Nil, <<>>, <<>>, "", Nil, Nil)
                                          EXCEPT !.imagePrefix = prefix]),
                                  <<>>, 0, TRUE)

SpecMerge == InitMerge /\ [][NextMerge]_vars

\* the token cache under validations and the passing of time; the backend
\* knows every token but the first
NextToken ==
    \/ \E token \in CacheTokens : ValidateReq(token, token # 1)
    \/ AdvanceTime

SpecToken == InitPods /\ [][NextToken]_vars

----------------------------------------------------------------------------
(* Specification of two gateway replicas: each runs its own AEnvCleanManager
   (main builds one per process), and their passes interleave at one
   controller. *)

\* the two replicas whose passes race
Racers == {1, 2}

NextRace ==
    \/ nextPod < MaxLivePods /\ CreatePod(<<"1", "s">>)
    \/ \E id \in PodIds : WatchDeliver(id)
    \/ \E id \in PodIds : PhaseChange(id, "Terminated")
    \/ AdvanceTime
    \/ \E c \in Racers : StartPass(c)
    \/ \E c \in Racers : FilterPodsOk(c)
    \/ \E c \in Racers : FilterPodsFail(c)
    \/ \E c \in Racers : CleanupSkip(c)
    \/ \E c \in Racers, id \in PodIds : CleanupDelete(c, id)
    \/ \E c \in Racers, id \in PodIds : CleanupDeleteFail(c, id)
    \/ \E c \in Racers : CleanupReturn(c)

SpecRace == InitPods /\ [][NextRace]_vars

----------------------------------------------------------------------------
(* Specification of the index against the instances: tenants create and
   delete through the gateway, whose index operations all succeed, and the
   reclamation loop deletes what has expired. *)

NextTenant ==
    \/ \E t \in Tokens :
          CreateEnvInstanceReq(t, Request(TRUE, FooName, <<>>, Unset, Unset, <<"1", "s">>),
                               FooEnv, <<>>, 0, TRUE)
    \/ \E t \in Tokens, id \in PodIds : DeleteEnvInstanceReq(t, id, 0, TRUE)
    \/ \E id \in PodIds : WatchDeliver(id)
    \/ AdvanceTime
    \/ StartPass(1)
    \/ FilterPodsOk(1)
    \/ \E id \in PodIds : CleanupDelete(1, id)
    \/ CleanupReturn(1)

SpecTenant == InitPods /\ [][NextTenant]_vars

----------------------------------------------------------------------------
(* Specification of reads after deletes: pods are created, read and deleted
   through the controller, and the watch delivers every event in the end. *)

NextEventual ==
    \/ nextPod < MaxLivePods /\ CreatePod(<<"1", "s">>)
    \/ \E id \in PodIds : WatchDeliver(id)
    \/ \E id \in PodIds, apiCode \in {0, 500} : DeletePodReq(id, apiCode)
    \/ \E id \in PodIds, apiCode \in {0, 500} : GetPodReq(id, apiCode)

SpecEventual ==
    /\ InitPods
    /\ [][NextEventual]_vars
    /\ \A id \in PodIds : WF_vars(WatchDeliver(id))

----------------------------------------------------------------------------
(* Specification of the index under requests that fail: creates of a tenant
   that fail at each step or succeed, and deletes whose backend call fails or
   succeeds; the index itself always answers. *)

NextFrame ==
    \/ \E name \in Names, e \in Lookups, apiCode \in {0, 500} :
          CreateEnvInstanceReq(1, Request(TRUE, name, <<"ds">>, Unset, Unset, <<"1", "s">>),
                               e, <<>>, apiCode, TRUE)
    \/ \E id \in PodIds, apiCode \in {0, 500} : DeleteEnvInstanceReq(1, id, apiCode, TRUE)
    \/ \E id \in PodIds : WatchDeliver(id)

SpecFrame == InitPods /\ [][NextFrame]_vars

----------------------------------------------------------------------------
(* Claims *)

\* the TTL of pod p has elapsed at time t
Expired(p, t) ==
    /\ p.exists
    /\ ParseDuration(p.ttl).ok
    /\ t - p.createdAt > ParseDuration(p.ttl).d

Terminal == {"Terminated", "Failed"}

\* C1: ListExpired at time t returns a cached instance with a parsable TTL label
\* d and creation time t0 if and only if t - t0 > d.
C1_ExpiredIffElapsed ==
    \A id \in PodIds :
        (cache[id].exists /\ ParseDuration(cache[id].ttl).ok)
            => (id \in ListExpiredPods(cache, now) <=> Expired(cache[id], now))

\* C2: a cleanup pass issues a delete only for an instance whose TTL has
\* elapsed: no step of the loop deletes, or tries to delete, a live instance
\* that has not expired.
C2_CleanupDeletesOnlyExpired ==
    [][\A c \in Cleaners :
          (/\ cpc[c] = "loop"
           /\ cIdx'[c] = cIdx[c] + 1
           /\ Instance(c).status # "Terminated"
           /\ cluster[Instance(c).id].exists)
              => Expired(cluster[Instance(c).id], now)]_vars

\* C3: an instance with a parsable TTL that has elapsed, and that is in a
\* non-terminal status, is eventually deleted (or becomes terminal).
C3_EventuallyReclaimed ==
    \A id \in PodIds :
        (cluster[id].exists /\ Expired(cluster[id], now) /\ cluster[id].phase \notin Terminal)
            ~> (~cluster[id].exists \/ cluster[id].phase \in Terminal)

\* a pass has just deleted an expired, non-terminal instance
C3_Witness ==
    \E c \in Cleaners :
        /\ cpc[c] = "loop" /\ cIdx[c] = 1 /\ deletedCount[c] = 1
        /\ envInstances[c][1].status \notin Terminal
        /\ ~cluster[envInstances[c][1].id].exists
        /\ Expired(cache[envInstances[c][1].id], now)

\* C4: a deletion that fails does not end the pass: an iteration of the loop
\* leaves Cleanup in its loop and counts one exactly when it removed the pod,
\* and Cleanup returns only after the last listed instance, without error.
C4_BestEffort ==
    [][\A c \in Cleaners :
          /\ (cpc[c] = "loop" /\ cIdx'[c] = cIdx[c] + 1)
                => /\ cpc'[c] = "loop"
                   /\ deletedCount'[c] =
                        deletedCount[c] + (IF cluster' # cluster THEN 1 ELSE 0)
          /\ (cpc[c] = "loop" /\ cpc'[c] # "loop")
                => /\ cIdx[c] = Len(envInstances[c])
                   /\ cResult'[c] = "nil"]_vars

\* the only candidate's deletion has failed (the pod is still there): the
\* loop is over with deletedCount = 0
C4_Witness ==
    \E c \in Cleaners :
        /\ cpc[c] = "loop" /\ Len(envInstances[c]) = 1 /\ cIdx[c] = 1
        /\ envInstances[c][1].status # "Terminated"
        /\ cluster[envInstances[c][1].id].exists
        /\ deletedCount[c] = 0

\* C9: GET /pods/{id} answers 404 only for an id that is in neither the cache
\* nor the cluster; for a pod the cluster holds and the cache does not, it
\* never answers 404, and answers 200 with the pod when the cluster read works.
C9_GetFallsBack ==
    getResp.id # 0 =>
        /\ getResp.code = 404 => (~getResp.inCache /\ ~getResp.inCluster)
        /\ (getResp.inCluster /\ ~getResp.inCache) => getResp.code # 404
        /\ (getResp.inCluster /\ ~getResp.inCache /\ getResp.apiCode = 0)
              => (getResp.code = 200 /\ getResp.pod.exists)

\* a GET answered from the cluster for a pod whose add event is still to come
C9_Witness ==
    /\ getResp.id # 0 /\ getResp.inCluster /\ ~getResp.inCache
    /\ getResp.code = 200 /\ getResp.pod.exists

\* C5: at any instant at most one live replica's /readyz answers 200 "ok",
\* and at most one replica serves /pods; that replica holds the lease, and
\* every other replica answers 400 "not leader".
C5_OneLeader ==
    /\ Cardinality({r \in Replicas : Alive(r) /\ readyzHandler(r) = 200}) <= 1
    /\ Cardinality({r \in Replicas : rpc[r] = "serving"}) <= 1
    /\ \A r \in Replicas :
          (Alive(r) /\ lease.holder # r) => (readyzHandler(r) = 400 /\ rpc[r] # "serving")
    /\ readyzResp.code = 200 => lease.holder = readyzResp.r

\* the lease has passed from a replica that led to another, which now
\* reports leader and serves
C5_Witness ==
    \E r, q \in Replicas :
        /\ r # q
        /\ rpc[q] = "serving" /\ readyzResp = [r |-> q, code |-> 200]
        /\ rpc[r] = "wait" /\ lease.holder = q /\ lease.transitions > 0

\* C6: a replica binds the /pods server only after mgr.Elected() has fired,
\* and at most once; a replica that was not elected serves no /pods.
C6_ServeOnlyAfterElected ==
    \A r \in Replicas :
        /\ httpStarts[r] <= 1
        /\ (httpStarts[r] > 0 \/ rpc[r] = "serving") => elected[r]
        /\ ~elected[r] => (Alive(r) => rpc[r] = "wait")

\* an elected replica serves /pods while another, never elected, answers only /readyz
C6_Witness ==
    \E r, q \in Replicas :
        /\ r # q
        /\ rpc[r] = "serving" /\ httpStarts[r] = 1
        /\ rpc[q] = "wait" /\ ~elected[q] /\ readyzResp = [r |-> q, code |-> 400]

\* C7: /readyz never answers 200 "ok" before the replica's cache has synced.
C7_ReadyOnlyAfterSync ==
    readyzResp.code = 200 => hasSynced[readyzResp.r]

\* C8: /pods is never answered from a cache that has not synced: the server
\* is bound, and every request answered, only after the initial sync.
C8_NeverServedUnsynced ==
    /\ \A r \in Replicas : rpc[r] = "serving" => hasSynced[r]
    /\ crudResp.r # 0 => crudResp.synced

\* a request to /pods has been answered
C8_Witness ==
    crudResp.r # 0 /\ crudResp.synced /\ rpc[crudResp.r] = "serving"

\* C10: a tenant's live-instance count exceeds the cap by at most one.
C10_QuotaDriftAtMostOne ==
    \A t \in Tokens : LiveCount(t) <= InstanceCap + 1

\* C11: on POST /env-instance a request enters the rate-limit stage from
\* authentication, the tenant-quota stage from the rate limit and the handler
\* (the backend create) from the tenant quota; a request a stage has ended
\* goes no further.
C11_StagesInOrder ==
    [][\A k \in Reqs :
          /\ (rq'[k].pc = "rate" /\ rq[k].pc # "rate") => rq[k].pc = "auth"
          /\ (rq'[k].pc = "limit" /\ rq[k].pc # "limit") => rq[k].pc = "rate"
          /\ (rq'[k].pc = "create" /\ rq[k].pc # "create") => rq[k].pc = "limit"
          /\ rq[k].pc = "done" => rq'[k] = rq[k]]_vars

\* C12: once the backend call of a create or of a delete has succeeded, the
\* request ends with success whatever becomes of its index operation.
C12_IndexFailureSwallowed ==
    [][\A k \in Reqs :
          (rq[k].pc \in {"store", "remove"} /\ rq'[k] # rq[k])
              => /\ rq'[k].pc = "done"
                 /\ rq'[k].code = 200
                 /\ rq'[k].idx \in {"ok", "fail", "skipped"}]_vars

\* a delete has succeeded although its index remove failed, of an instance
\* whose create had succeeded without an index entry (its store failed or
\* was skipped)
C12_Witness ==
    \E k \in Reqs :
        /\ rq[k].pc = "done" /\ rq[k].op = "delete" /\ rq[k].idx = "fail" /\ rq[k].code = 200
        /\ owner[rq[k].inst] = 0
        /\ \A t \in Tokens : rq[k].inst \notin index[t]

\* C13: when its index operation succeeds, a successful create by token T
\* leaves the new instance recorded under T, and a successful delete leaves
\* the instance recorded nowhere in the index.
C13_IndexFollowsCreateDelete ==
    [][\A k \in Reqs :
          /\ (rq[k].pc = "store" /\ rq'[k].pc = "done" /\ rq'[k].idx = "ok")
                => rq[k].inst \in index'[rq[k].token]
          /\ (rq[k].pc = "remove" /\ rq'[k].pc = "done" /\ rq'[k].idx = "ok")
                => \A t \in Tokens : rq[k].inst \notin index'[t]]_vars

\* C14: a list whose index read succeeds is answered from the index; one
\* whose index read fails, or that has no index, is answered with the list of
\* the Instance Backend, when the backend can be reached.
C14_ListIndexThenBackend ==
    [][\A k \in Reqs :
          (rq[k].pc = "list" /\ rq'[k].pc = "done" /\ rq[k].token # Anon)
              => /\ rq'[k].idx = "ok"
                    => (rq'[k].src = "index" /\ rq'[k].code = 200
                        /\ rq'[k].data = index[rq[k].token])
                 /\ rq'[k].idx \in {"fail", "skipped"}
                    => (rq'[k].src = "backend"
                        /\ (rq'[k].api => (rq'[k].code = 200 /\ rq'[k].data = LiveInstances)))]_vars

C16_UnparsableSkipped ==
    \A id \in PodIds :
        /\ (cache[id].exists /\ cache[id].ttl # <<>> /\ ~ParseDuration(cache[id].ttl).ok)
              => id \notin ListExpiredPods(cache, now)
        /\ Expired(cache[id], now) => id \in ListExpiredPods(cache, now)

\* with an unparsable pod and an expired one in the cache, a pass was given
\* the expired one alone
C16_Witness ==
    \E u, x \in PodIds, c \in Cleaners :
        /\ cache[u].exists /\ cache[u].ttl # <<>> /\ ~ParseDuration(cache[u].ttl).ok
        /\ Expired(cache[x], now)
        /\ cpc[c] = "loop" /\ cIdx[c] = 0
        /\ Len(envInstances[c]) = 1 /\ envInstances[c][1].id = x

\* C17: the loop of a cleanup pass attempts no delete for an instance whose
\* status is terminal (Terminated or Failed).
C17_TerminalSkipped ==
    [][\A c \in Cleaners :
          (/\ cpc[c] = "loop"
           /\ cIdx'[c] = cIdx[c] + 1
           /\ Instance(c).status \in Terminal)
              => (cluster' = cluster /\ attempted' = attempted)]_vars

\* C18: a pass runs only as the first pass of Start or as the pass of a tick;
\* a pass begins only from Idle, at Start or on a tick taken from the ticker,
\* and the goroutine goes back to its select only when the pass has returned.
C18_LoopCycle ==
    [][\A c \in Cleaners :
          /\ cpc'[c] # "idle" => mpc'[c] \in {"first", "pass"}
          /\ (cpc'[c] = "list" /\ cpc[c] # "list")
                => /\ cpc[c] = "idle"
                   /\ \/ mpc[c] = "new" /\ mpc'[c] = "first"
                      \/ mpc[c] = "select" /\ tickPending[c] /\ ~tickPending'[c] /\ mpc'[c] = "pass"
          /\ (mpc[c] = "new" /\ mpc'[c] # "new") => cpc'[c] = "list"
          /\ (mpc'[c] = "select" /\ mpc[c] # "select") => cpc[c] = "idle"
          /\ cpc[c] = "idle" => cpc'[c] \in {"idle", "list"}
          /\ cpc[c] = "list" => cpc'[c] \in {"list", "loop", "idle"}
          /\ cpc[c] = "loop" => cpc'[c] \in {"loop", "idle"}]_vars

\* the pass of a tick is in its loop, after the first pass has returned
C18_Witness ==
    \E c \in Cleaners : mpc[c] = "pass" /\ cpc[c] = "loop" /\ cIdx[c] > 0

\* C19: once Stop has been called, the pass in flight completes and the
\* ticker goroutine exits.
C19_StopEndsLoop ==
    \A c \in Cleaners :
        cancelled[c] ~> (mpc[c] = "stopped" /\ cpc[c] = "idle")

\* Stop was called and the goroutine has exited, after a pass that deleted a pod
C19_Witness ==
    \E c \in Cleaners :
        /\ mpc[c] = "stopped" /\ cancelled[c] /\ cpc[c] = "idle"
        /\ cResult[c] = "nil" /\ \E id \in PodIds : id <= nextPod /\ ~cluster[id].exists

\* C20: in one pass each listed instance is attempted at most once.
C20_NoRetryInPass ==
    \A c \in Cleaners, id \in PodIds : attempted[c][id] <= 1

\* the delete of an instance has failed in the pass of a tick; the instance
\* is still there and the loop has moved on
C20_Witness ==
    \E c \in Cleaners :
        /\ mpc[c] = "pass" /\ cpc[c] = "loop" /\ cIdx[c] = 1
        /\ attempted[c][envInstances[c][1].id] = 1
        /\ cluster[envInstances[c][1].id].exists
        /\ deletedCount[c] = 0

\* C21: an instance created through the gateway without a ttl is eventually
\* reclaimed by the loop (or becomes terminal), without an explicit delete.
C21_DefaultTTLRecycled ==
    \A id \in PodIds :
        (cluster[id].exists /\ cluster[id].ttl = <<>> /\ cluster[id].phase \notin Terminal)
            ~> (~cluster[id].exists \/ cluster[id].phase \in Terminal)


\* C22: a create or warmup whose identifier has no "@" is answered 400 with no
\* lookup of the definition, no call of the backend and no index update, and
\* it leaves the cluster, the index and the controller as they were.
C22_MalformedRejected ==
    [][(/\ gwResp'.op \in {"create", "warmup"}
        /\ gwResp'.req.binds
        /\ SplitEnvNameVersionStrict(gwResp'.req.EnvName).err)
          => /\ gwResp'.resp = JSONErrorWithMessage(400)
             /\ gwResp'.lookups = 0 /\ gwResp'.backendCalls = 0 /\ ~gwResp'.indexed
             /\ gwResp' # gwResp =>
                   (cluster' = cluster /\ nextPod' = nextPod /\ index' = index /\ postResp' = postResp)]_vars

\* a create without "@" has been answered 400 after a create that made an
\* instance and stored it in the index
C22_Witness ==
    /\ gwResp.op = "create" /\ gwResp.req.binds /\ gwResp.req.EnvName = <<"foo">>
    /\ gwResp.resp.code = 400
    /\ nextPod = 1 /\ cluster[1].exists /\ 1 \in index[1]

\* the error of the cluster API behind the last answer of GET /pods/{id},
\* DELETE /pods/{id} and POST /pods (0: the cluster API gave no error)
getErr ==
    IF getResp.id = 0 \/ getResp.inCache THEN 0
    ELSE IF getResp.apiCode # 0 THEN getResp.apiCode
    ELSE IF ~getResp.inCluster THEN 404 ELSE 0

delErr ==
    IF delResp.id = 0 THEN 0
    ELSE IF delResp.apiCode # 0 THEN delResp.apiCode
    ELSE IF ~delResp.existed THEN 404 ELSE 0

postErr == postResp.apiCode

\* the status the claim gives a cluster error: 404, 409, and 500 for the rest
Only404And409(err) == IF err \in {404, 409} THEN err ELSE 500

\* the status a cluster error is answered with: 400, 401, 403, 404 and 409
\* unchanged, 200 for a status error carrying 200, 201 or 202, 500 for the rest
Translated(err) ==
    IF err \in {400, 401, 403, 404, 409} THEN err
    ELSE IF err \in {200, 201, 202} THEN 200
    ELSE 500

\* C23 as stated: create, get and delete answer a cluster error with 404 for
\* not found, 409 for conflict and 500 for every other error.
C23_OtherErrors500 ==
    /\ getErr # 0 => getResp.code = Only404And409(getErr)
    /\ delErr # 0 => delResp.code = Only404And409(delErr)
    /\ postErr # 0 => postResp.resp.code = Only404And409(postErr)

\* C23, amended: create, get and delete answer a cluster error with 404 for not
\* found, 409 for conflict, 400, 401 and 403 for bad request, unauthorized and
\* forbidden, 200 for a status error that carries a success code, and 500 for
\* every other status code and for an error that is no status error.
C23_ErrorsTranslated ==
    /\ getErr # 0 => getResp.code = Translated(getErr)
    /\ delErr # 0 => delResp.code = Translated(delErr)
    /\ postErr # 0 => postResp.resp.code = Translated(postErr)

\* a create answered 409 on a conflict, a get answered 404 for a pod that is
\* nowhere, and a delete answered 500 on an error that is no status error
C23_Witness ==
    /\ postErr = 409 /\ postResp.resp.code = 409
    /\ getErr = 404 /\ getResp.apiCode = 0 /\ getResp.code = 404
    /\ delErr = NonStatus /\ delResp.code = 500


\* C24: a GET or DELETE /env-instance/:id for an id the backend reports as not
\* found is answered 404 by the gateway.
C24_UnknownInstance404 ==
    (gwResp.op \in {"get", "delete"} /\ ~gwResp.existed /\ gwResp.backendCode = 404)
        => gwResp.resp.code = 404


\* C25: every failing operation of the controller and of the gateway is
\* answered with an error status and a body that is the envelope with success
\* false; none is answered with a success status, no body, or another body.
C25_ErrorsCarryEnvelope ==
    /\ (postResp # NoPost /\ ~postResp.submitted)
          => (postResp.resp.code >= 400 /\ postResp.resp.body = "json" /\ ~postResp.resp.success)
    /\ (gwResp.op # "" /\ gwResp.resp # JSONSuccess)
          => (gwResp.resp.code >= 400 /\ gwResp.resp.body = "json" /\ ~gwResp.resp.success)


\* C26: a create that names a secondary template kind with no template file
\* is answered 404, its handler does not panic, and no pod is submitted.
C26_MissingKindNotFound ==
    (/\ postResp.kind \in Kinds \ {SingleContainerTemplate}
     /\ ~files.mounted[postResp.kind].exists)
        => (postResp.resp.code = 404 /\ ~postResp.panic /\ ~postResp.submitted)


C28_AutoscaleSetsResources ==
    (/\ postResp.template.exists
     /\ postResp.env.DeployConfig.resource = "autoscale"
     /\ ParseQuantity(postResp.env.DeployConfig.cpu).ok
     /\ ParseQuantity(postResp.env.DeployConfig.memory).ok)
        => LET cpu == postResp.env.DeployConfig.cpu
               memory == postResp.env.DeployConfig.memory
               expect == ResourceList(ParseQuantity(cpu).q, ParseQuantity(memory).q)
           IN  /\ ~postResp.panic
               /\ \A i \in 1..Len(postResp.pod.Containers) :
                     /\ postResp.pod.Containers[i].Requests = expect
                     /\ postResp.pod.Containers[i].Limits = expect
                     /\ (cpu = <<"2">> /\ memory = <<"4", "G">>)
                           => /\ postResp.pod.Containers[i].Requests.cpu = Quantity(2000, "milli")
                              /\ postResp.pod.Containers[i].Requests.memory = Quantity(4, "Gi")


\* C29: when the resource marker of the deploy config is not "autoscale", the
\* merge leaves the requests and limits of every container as the template
\* has them, whatever cpu and memory the definition gives.
C29_ResourcesUntouched ==
    (postResp.template.exists /\ postResp.env.DeployConfig.resource # "autoscale")
        => /\ ~postResp.panic
           /\ Len(postResp.pod.Containers) = Len(postResp.template.Containers)
           /\ \A i \in 1..Len(postResp.template.Containers) :
                 /\ postResp.pod.Containers[i].Requests = postResp.template.Containers[i].Requests
                 /\ postResp.pod.Containers[i].Limits = postResp.template.Containers[i].Limits

\* a pod has been submitted for a definition with cpu 2 and memory 4G and a
\* marker other than "autoscale", with the 1 CPU and 1Gi of its template
C29_Witness ==
    /\ postResp.submitted
    /\ postResp.env.DeployConfig.resource = "fixed"
    /\ postResp.env.DeployConfig.cpu = <<"2">> /\ postResp.env.DeployConfig.memory = <<"4", "G">>
    /\ postResp.template.Containers[1].Requests = FullList
    /\ postResp.pod.Containers[1].Requests = FullList
    /\ postResp.pod.Containers[1].Limits = FullList


\* C30: after a definition is merged into a template no container of the pod
\* built has two environment variables of the same name, and a variable of
\* the definition has the definition's value, not the template's.
C30_NoDuplicateEnv ==
    (postResp.template.exists /\ ~postResp.panic)
        => \A i \in 1..Len(postResp.pod.Containers) :
              LET env == postResp.pod.Containers[i].Env
                  kv == postResp.env.DeployConfig.environmentVariables
              IN  /\ \A a, b \in 1..Len(env) : env[a].Name = env[b].Name => a = b
                  /\ \A n \in DOMAIN kv : \A a \in 1..Len(env) : env[a].Name = n => env[a].Value = kv[n]


\* a memory quantity is within 256MiB and 8GiB: 1 to 8 Gi, and 1 to 8 G
\* (8 * 10^9 is below 8 * 2^30, 9 * 10^9 above); the byte and milli-byte
\* counts of the model are all below 256MiB
MemoryInRange(q) == q.u \in {"G", "Gi"} /\ q.n >= 1 /\ q.n <= 8

\* C31: in every pod submitted to the cluster a memory request or limit that
\* was set from the definition lies within 256MiB and 8GiB; a value of the
\* definition outside the range is not applied. (No merge of the create path
\* sets ephemeral storage.)
C31_MemoryBounded ==
    postResp.submitted
        => \A i \in 1..Len(postResp.pod.Containers) :
              /\ postResp.pod.Containers[i].Requests # postResp.template.Containers[i].Requests
                    => MemoryInRange(postResp.pod.Containers[i].Requests.memory)
              /\ postResp.pod.Containers[i].Limits # postResp.template.Containers[i].Limits
                    => MemoryInRange(postResp.pod.Containers[i].Limits.memory)


\* the tokens that have an entry in the cache c
tokensOf(c) == {c[i].token : i \in 1..Len(c)}

\* the place of the last call of Validate with a token
lastUse(token) ==
    CHOOSE i \in 0..Len(useLog) :
        /\ i # 0 => useLog[i].token = token
        /\ \A j \in (i + 1)..Len(useLog) : useLog[j].token # token

\* C32: the cache never holds more than max-entries entries, and a Validate
\* that stores a token with no entry into a full cache evicts exactly one
\* entry, that of the token whose last validation is the oldest.
C32_EvictsLeastRecentlyUsed ==
    [][/\ Len(tcache') <= tokenCacheMaxEntries
       /\ (/\ useLog' # useLog
           /\ Len(tcache) = tokenCacheMaxEntries
           /\ valResp'.token \notin tokensOf(tcache))
             => \E lru \in tokensOf(tcache) :
                   /\ \A o \in tokensOf(tcache) : lastUse(lru) <= lastUse(o)
                   /\ tokensOf(tcache') = (tokensOf(tcache) \ {lru}) \cup {valResp'.token}
                   /\ Len(tcache') = tokenCacheMaxEntries]_vars

\* the cache is full, the token validated first was validated again before
\* the last one came, and it is the token validated second that was evicted
C32_Witness ==
    /\ Len(useLog) = tokenCacheMaxEntries + 2
    /\ Cardinality({useLog[i].token : i \in 1..Len(useLog)}) = tokenCacheMaxEntries + 1
    /\ useLog[tokenCacheMaxEntries + 1].token = useLog[1].token
    /\ Len(tcache) = tokenCacheMaxEntries
    /\ useLog[1].token \in tokensOf(tcache)
    /\ useLog[2].token \notin tokensOf(tcache)
    /\ valResp.called /\ valResp.token = useLog[Len(useLog)].token


\* C33: no Validate is answered from the cache once the TTL of the token's
\* entry has elapsed: every answer given without the backend comes at most
\* the TTL after the last backend identity check of that token, and repeats
\* its result.
C33_StaleNeverServed ==
    \A j \in 1..Len(useLog) :
        ~useLog[j].called
            => \E i \in 1..(j - 1) :
                  /\ useLog[i].token = useLog[j].token /\ useLog[i].called
                  /\ \A k \in (i + 1)..(j - 1) : ~(useLog[k].token = useLog[j].token /\ useLog[k].called)
                  /\ useLog[j].at - useLog[i].at <= tokenCacheTTLMinutes
                  /\ useLog[j].ok = useLog[i].ok

\* a token was checked by the backend, answered from the cache within the
\* TTL, and checked by the backend again once the TTL had elapsed
C33_Witness ==
    \E i, j, k \in 1..Len(useLog) :
        /\ i < j /\ j < k
        /\ useLog[i].token = useLog[j].token /\ useLog[j].token = useLog[k].token
        /\ useLog[i].called /\ ~useLog[j].called /\ useLog[k].called
        /\ useLog[k].at - useLog[i].at > tokenCacheTTLMinutes
        /\ useLog[i].token \in tokensOf(tcache)


\* C34: once Stop has been called no cleanup pass begins: not from a tick
\* that waits when the context is cancelled, and not from a Start called after
\* Stop.
C34_NoPassAfterStop ==
    [][\A c \in Cleaners :
          cancelled[c] => ~(cpc[c] = "idle" /\ cpc'[c] = "list")]_vars



C36_IndexRefersToExisting ==
    \A t \in Tokens : \A id \in index[t] : cluster[id].exists


\* neither the cluster nor the cache holds pod id
Gone(id) == ~cluster[id].exists /\ ~cache[id].exists

\* C37: after DELETE /pods/{id} has succeeded the pod is in the end gone from
\* the cache for good, and a GET /pods/{id} answered from then on never
\* reports the pod: it is answered 404 whenever the cluster API answers.
C37_ReadsFollowDelete ==
    /\ \A id \in PodIds :
          (delResp.id = id /\ ~delResp.err) ~> [](Gone(id))
    /\ [][\A id \in PodIds :
             (Gone(id) /\ getResp' # getResp /\ getResp'.id = id)
                 => /\ getResp'.code # 200
                    /\ getResp'.apiCode = 0 => getResp'.code = 404]_vars

\* a pod was deleted, the watch has delivered the event, and a GET of it was
\* answered 404
C37_Witness ==
    \E id \in PodIds :
        /\ delResp.id = id /\ ~delResp.err /\ delResp.existed
        /\ getResp.id = id /\ getResp.code = 404
        /\ ~getResp.inCache /\ Gone(id)


\* C38: no create request makes a create handler panic: the controller's
\* handler answers every POST /pods it is given, and the gateway's answers
\* every POST /env-instance itself rather than its Recovery middleware.
C38_NoCreatePanics ==
    /\ ~postResp.panic
    /\ gwResp.op = "create" => gwResp.resp # Recovered


\* C39: the Tenant Instance Index changes only with a create or a delete that
\* the gateway answers 200: a create that fails at any step, and a delete
\* whose backend call fails, leave it as it was.
C39_FailuresLeaveIndex ==
    [][index' # index
          => /\ gwResp'.op \in {"create", "delete"}
             /\ gwResp'.resp.code = 200
             /\ gwResp'.backendCalls = 1]_vars

\* with instance 1 in the index of its tenant, a create has failed at the
\* backend and then the delete of instance 1 has failed at the backend
C39_Witness ==
    /\ index[1] = {1} /\ cluster[1].exists
    /\ postResp.resp.code = 500 /\ ~postResp.submitted
    /\ gwResp.op = "delete" /\ gwResp.id = 1 /\ gwResp.resp.code = 500


\* C40: a gateway create with arguments that is answered 200 has made the
\* controller submit a pod in which every container has the arguments of its
\* template followed by those of the request.
C40_ArgumentsAppended ==
    [][(/\ gwResp' # gwResp
        /\ gwResp'.op = "create" /\ gwResp'.resp.code = 200
        /\ gwResp'.req.Arguments.set)
          => /\ postResp'.submitted
             /\ \A i \in 1..Len(postResp'.pod.Containers) :
                   postResp'.pod.Containers[i].Args
                      = postResp'.template.Containers[i].Args \o gwResp'.req.Arguments.v]_vars

====
